---- MODULE Spec2Model ----
(***************************************************************************)
(* A model of the arbitrage bot: the hot list (active set) with its        *)
(* historical statistics, the expiring cache, the pairwise and triangular  *)
(* profit engines and the bot's two periodic scan timers.                  *)
(*                                                                         *)
(* Time is the value of Date.now(), an integer that never decreases.  One  *)
(* handler runs to completion within one clock value; the clock advances   *)
(* between handlers (action Tick).  Map objects are modelled as sequences  *)
(* in insertion order, which is the order a JavaScript Map iterates in.    *)
(*                                                                         *)
(* SpecHot, SpecCache and SpecBot explore the hot list, the cache and the  *)
(* timers of the bot.  SpecArb and SpecTri follow one performArbitrageScan *)
(* call step by step, await by await: SpecArb with every quote board in    *)
(* the pairwise phase, SpecTri with every ticker case in the triangular    *)
(* phase.  SpecHistory logs every recordArbitrage call.  SpecScan follows  *)
(* one performVolumeScan call from the scan of the coins to the            *)
(* admissions, and SpecShutdown lets stop() run while cycles of both kinds *)
(* are in flight.  JavaScript numbers are exact rationals.                 *)
(***************************************************************************)
EXTENDS Integers, Sequences, FiniteSets, TLC

\* ------------------------------------------------------------------ bounds
\* config.hotListSize, scaled down
HotListSize == 2
\* config.hotListTTL, scaled down (clock units)
HotListTTL == 2
\* the trailing window of getHistoricallyProfitable (7 days), scaled down
WeekMs == 2
\* the largest clock value explored
MaxClock == 3
\* the number of recordArbitrage calls explored
MaxRecords == 3

\* the largest ttl passed to Cache.set
MaxTtl == 2

\* the number of cycles of one kind, and of start() calls, in flight at once
MaxInFlight == 2
\* the number of live interval timers of one kind
MaxTimers == 2
\* CACHE_TTL.prices, in clock units
CacheTtlPrices == 1
\* fetchTicker calls followed
MaxFetches == 3

\* TRADE_AMOUNT_USD
TradeAmountUsd == 100
\* default of config.arbitrageThreshold
DefaultThreshold == 3
\* hotSymbols.slice(0, 5) of performArbitrageScan
TopHotLimit == 5
\* symbols.slice(0, 10) of findTriangularArbitrage
TriangularSymbolLimit == 10
\* config.volumeSpikeThreshold and config.minAbsoluteVolume (VOLUME_SPIKE_THRESHOLD
\* unset, MIN_ABSOLUTE_VOLUME=200000)
VolumeSpikeThreshold == 3
MinAbsoluteVolume == 200000
\* VolumeScannerService.HISTORY_WINDOW
HistoryWindow == 12
\* hotSymbols.slice(0, 20) of performVolumeScan
DisparitySymbolLimit == 20
\* the disparity identifyCrossExchangeDisparities looks for
DisparityFactor == 3
\* default of getHistoricallyProfitable's minOccurrences parameter
MinOccurrences == 3

Symbols == {"BTC", "ETH", "SOL"}
\* null of `oldestSymbol: string | null`
NoSymbol == "none"
\* admission proposals (reason, volume snapshot) made by the discovery cycle
Proposals == {<<"volume_spike", 2>>, <<"high_volume", 1>>}
\* the symbols and net profit percentages recorded while the historical
\* statistics are explored
HistorySymbols == {"BTC", "ETH"}
HistoryProfits == {<<3, 1>>, <<24, 5>>}
\* the symbols and the profit recorded while the hot list is explored
Tracked == {"BTC"}
TrackedProfits == {<<3, 1>>}
\* CEXService.exchanges (the first three of SUPPORTED_CEX), in key order
Venues == <<"binance", "bybit", "okx">>
VenueSet == {Venues[i] : i \in 1..Len(Venues)}
\* majorExchanges of scanAllExchanges (the first two of the four)
MajorExchanges == <<"binance", "bybit">>
\* commonBases of TriangularArbitrageService
CommonBases == <<"BTC", "ETH", "BNB", "USDT", "USDC">>
\* a ticker or quote the venue does not have (null)
Absent == <<>>
\* config.arbitrageThreshold values explored (percent)
Thresholds == {<<3, 1>>, <<24, 5>>, <<5, 1>>}
\* the orders in which the concurrent ticker fetches of getPricesAcrossExchanges
\* complete
VenueOrders == {<<1, 2, 3>>, <<3, 2, 1>>}
\* DEFAULT_FEES.cexTradingFee, 0.001
CexTradingFee == <<1, 1000>>
\* cexService.getWithdrawalFee per venue, in units of the base asset
WithdrawalSchedules ==
  { [v \in VenueSet |-> <<0, 1>>],
    [v \in VenueSet |-> IF v = "binance" THEN <<1, 100>> ELSE <<0, 1>>] }
\* the last prices of one symbol: per venue a price, or Absent when fetchTicker
\* returned null or a last price of 0
QuotePrices == {Absent, <<100, 1>>, <<105, 1>>}
QuoteBoards == [VenueSet -> QuotePrices]
NoQuotes == [v \in VenueSet |-> Absent]
\* the tickers a venue has for the three pairs of a triangular path: the
\* symbol/USDT ask, the symbol/intermediate bid, the intermediate/USDT bid; all
\* three usable, or one of them missing or zero, or none there
TickerCases ==
  { <<<<100, 1>>, <<1, 50>>, <<5000, 1>>>>, <<<<100, 1>>, <<1, 50>>, <<5200, 1>>>>,
    <<<<100, 1>>, <<1, 50>>, <<5300, 1>>>>,
    <<Absent, <<1, 50>>, <<5300, 1>>>>, <<<<0, 1>>, <<1, 50>>, <<5300, 1>>>>,
    <<<<100, 1>>, Absent, <<5300, 1>>>>, <<<<100, 1>>, <<0, 1>>, <<5300, 1>>>>,
    <<<<100, 1>>, <<1, 50>>, Absent>>, <<<<100, 1>>, <<1, 50>>, <<0, 1>>>>,
    <<Absent, Absent, Absent>> }
NoTickers == {<<Absent, Absent, Absent>>}
\* results of one updateSuspendedTokens round: per venue the suspended symbols
StatusReports ==
  { [v \in VenueSet |-> {}],
    [v \in VenueSet |-> IF v = "binance" THEN {"BTC"} ELSE {}],
    [v \in VenueSet |-> IF v = "okx" THEN {"BTC", "ETH"} ELSE {}] }
\* what the venues' status endpoints answer while the bot runs: binance has
\* the withdrawals of BTC suspended
VenueStatus == [v \in VenueSet |-> IF v = "binance" THEN {"BTC"} ELSE {}]
\* quotes of a symbol in the cycles that look at the triangular engine
QuietBoards ==
  { NoQuotes,
    [v \in VenueSet |-> IF v = "binance" THEN <<100, 1>>
                        ELSE IF v = "bybit" THEN <<105, 1>> ELSE Absent] }
\* hot lists the evaluation cycles start on, as the symbols admitted in order
ArbSeeds == {<<>>, <<"BTC", "ETH">>}
TriSeeds == {<<"SOL">>, <<"BTC">>}
\* hot lists of one to seven coins, in the order of their admission
TopSeeds ==
  { <<"SOL">>, <<"BTC", "ETH", "SOL", "XRP", "ADA">>,
    <<"BTC", "ETH", "SOL", "XRP", "ADA", "DOGE">>,
    <<"BTC", "ETH", "SOL", "XRP", "ADA", "DOGE", "AVAX">>,
    <<"AVAX", "DOGE", "ADA", "XRP", "SOL", "ETH", "BTC">> }
\* the coins the volume scan covers, in the order of coinListService.getCoins
ScanCoins == <<"BTC", "ETH">>
\* per venue asked, the ticker of one symbol as <<volume>>, or no ticker
VolumeBoards ==
  { <<Absent, Absent, Absent>>, <<<<150000>>, Absent, Absent>>,
    <<<<150000>>, <<200000>>, Absent>>, <<<<200000>>, <<200000>>, <<0>>>>,
    <<<<50000>>, <<150000>>, Absent>> }
\* the volume histories the scanner holds for a symbol when a cycle starts
VolumeHistories == { <<>>, <<10000, 20000, 20000>> }
\* per venue, the ticker getVolumeData gets for one pair as <<volume>>, or no ticker
VolumeMaps ==
  { <<Absent, Absent, Absent>>, <<<<100000>>, <<300000>>, Absent>>,
    <<<<100000>>, <<200000>>, <<0>>>> }
\* hot lists the discovery cycles start on, as the symbols admitted in order
ScanSeeds == {<<>>, <<"SOL">>}
\* the exchange ids and symbols fetchTicker is called with; "unlisted" is an id
\* CEXService.exchanges has no entry for
FetchVenues == {"binance", "bybit", "unlisted"}
FetchSymbols == {"BTC/USDT"}
\* what the venue's fetchTicker gives, as <<last, volume>> after `|| 0`: a
\* ticker, a ticker with no field set, or no ticker when the call throws
VenueAnswers == {<<100, 5000>>, <<0, 0>>, Absent}
\* rolling windows earlier cycles left: empty, short, one short of full, and full
WindowHistories ==
  { <<>>, <<10000, 20000, 20000>>,
    <<20000, 30000, 40000, 50000, 60000, 70000, 80000, 90000, 100000, 110000, 120000>>,
    <<10000, 20000, 30000, 40000, 50000, 60000, 70000, 80000, 90000, 100000, 110000,
      120000>> }
\* cache keys and cached values
Keys == {"k1", "k2"}
Values == {"a", "b"}
\* null, the result of a cache miss
Null == "null"

VARIABLES
  now,                  \* Date.now()
  hotList,              \* HotListService.hotList, in insertion order
  historicalArbitrage,  \* HotListService.historicalArbitrage, in insertion order
  records,              \* number of Record steps taken so far
  hotOp,                \* the last hot-list operation, its arguments and the size before it
  cache,                \* Cache.cache: key -> CacheEntry
  lastSet,              \* per key, the entry of the last set() no delete() or clear() followed
  cacheOp,              \* the last cache operation, its key and what it returned
  unsweptCache,         \* a Cache given the same calls whose cleanup timer never fires
  fetchOp,              \* the last fetchTicker call, what it did and the call before it
  isRunning,            \* ArbitrageBot.isRunning
  scanIntervalId,       \* ArbitrageBot.scanIntervalId is not null
  arbitrageIntervalId,  \* ArbitrageBot.arbitrageIntervalId is not null
  scanTimers,           \* live setInterval timers calling performVolumeScan
  arbitrageTimers,      \* live setInterval timers calling performArbitrageScan
  starting,             \* start() calls awaiting their initial performVolumeScan
  volumeScans,          \* performVolumeScan calls in flight that a timer started
  arbitrageScans,       \* performArbitrageScan calls in flight
  stopped,              \* stop() has run and start() has not been called since
  hotCleanupInterval,   \* HotListService.cleanupInterval is a live timer
  cacheCleanupInterval, \* Cache.cleanupInterval is a live timer
  arbitrageThreshold,   \* config.arbitrageThreshold, percent
  suspendedTokens,      \* ExchangeStatusService.suspendedTokens: venue -> set of symbols
  evalPc,               \* where the performArbitrageScan call followed here stands
  scanQueue,            \* hot symbols scanArbitrageOpportunities has still to scan
  topHotSymbols,        \* topHotSymbols of performArbitrageScan
  opportunities,        \* opportunities of scanArbitrageOpportunities
  triQueue,             \* paths scanAllExchanges has still to evaluate
  triangularOpportunities, \* opportunities of scanAllExchanges
  notifyQueue,          \* opportunities the running notification loop has still to visit
  alerts,               \* opportunities passed to sendArbitrageAlert
  delivered,            \* per alert, whether the Telegram message went out
  recorded,             \* opportunities passed to recordArbitrage
  evalOp,               \* the last evaluation step, its inputs and what it found
  volumeScanPc,         \* where the performVolumeScan call followed here stands
  volumeQueue,          \* symbols scanVolumes has still to scan
  volumeHistory,        \* VolumeScannerService.volumeHistory: symbol -> volumes
  scanVolumeData,       \* volumeData of scanVolumes, then of performVolumeScan
  volumeSpikes,         \* volumeSpikes of performVolumeScan
  spikeIndex,           \* index of the spike whose alert performVolumeScan awaits
  disparityQueue,       \* symbols identifyCrossExchangeDisparities has still to check
  disparities,          \* disparities of identifyCrossExchangeDisparities, in insertion order
  volumeAlerts,         \* symbols passed to sendVolumeAlert
  proposed,             \* addToHotList calls of performVolumeScan: symbol and reason
  scanOp,               \* the last discovery step and the hot list before it
  venueTickers,         \* per scanned symbol, the tickers the venues gave in this cycle
  env,                  \* process.env: the three settings config.ts validates
  processPc,            \* the process: loading config.ts, exited with code 1, or in main()
  admitPc,              \* the statement the addToHotList call on the stack has reached
  admitCall,            \* that call: its arguments and the hot list it was called on
  observed              \* what the last other task saw: the size and whether a call was on the stack

hotVars == <<hotList, historicalArbitrage, records, hotOp>>
cacheVars == <<cache, lastSet, cacheOp, unsweptCache, fetchOp>>
botVars == <<isRunning, scanIntervalId, arbitrageIntervalId, scanTimers, arbitrageTimers,
             starting, volumeScans, arbitrageScans, stopped>>
sweepVars == <<hotCleanupInterval, cacheCleanupInterval>>
arbVars == <<arbitrageThreshold, suspendedTokens, evalPc, scanQueue,
             topHotSymbols, opportunities, triQueue, triangularOpportunities,
             notifyQueue, alerts, delivered, recorded, evalOp>>
scanVars == <<volumeScanPc, volumeQueue, volumeHistory, scanVolumeData, volumeSpikes,
              spikeIndex, disparityQueue, disparities, volumeAlerts, proposed, scanOp,
              venueTickers>>
bootVars == <<env, processPc>>
taskVars == <<admitPc, admitCall, observed>>
vars == <<now, hotVars, cacheVars, botVars, arbVars, sweepVars, bootVars, taskVars, scanVars>>
nonHot == <<cacheVars, botVars, arbVars, sweepVars, bootVars, taskVars, scanVars>>
nonCache == <<hotVars, botVars, arbVars, sweepVars, bootVars, taskVars, scanVars>>
nonBot == <<now, hotVars, cacheVars, arbVars, sweepVars, bootVars, taskVars, scanVars>>

\* ------------------------------------------------------------ arithmetic
RECURSIVE Gcd(_, _)
Gcd(a, b) == IF b = 0 THEN a ELSE Gcd(b, a % b)

Abs(n) == IF n < 0 THEN -n ELSE n

\* JavaScript numbers are modelled as exact rationals <<num, den>>, den > 0,
\* in lowest terms
Rat(num, den) ==
  LET g == Gcd(Abs(num), Abs(den))
      sgn == IF den < 0 THEN -1 ELSE 1
  IN  <<(sgn * num) \div g, (sgn * den) \div g>>
RInt(n) == <<n, 1>>
\* sums, products and comparisons cancel common factors before they multiply,
\* so that intermediate values stay small
RAdd(a, b) ==
  LET g == Gcd(a[2], b[2])
  IN  Rat(a[1] * (b[2] \div g) + b[1] * (a[2] \div g), (a[2] \div g) * b[2])
RSub(a, b) == RAdd(a, <<-b[1], b[2]>>)
RMul(a, b) ==
  LET x == Rat(a[1], b[2])
      y == Rat(b[1], a[2])
  IN  <<x[1] * y[1], x[2] * y[2]>>
RDiv(a, b) == RMul(a, IF b[1] < 0 THEN <<-b[2], -b[1]>> ELSE <<b[2], b[1]>>)
RLt(a, b) ==
  LET g == Gcd(a[2], b[2])
  IN  a[1] * (b[2] \div g) < b[1] * (a[2] \div g)
RLe(a, b) ==
  LET g == Gcd(a[2], b[2])
  IN  a[1] * (b[2] \div g) <= b[1] * (a[2] \div g)

\* ---------------------------------------------------------------- hot list
\* this.hotList.keys()
GetHotSymbols(hl) == [i \in 1..Len(hl) |-> hl[i].symbol]

\* this.hotList.has(symbol)
IsHot(hl, symbol) == \E i \in 1..Len(hl) : hl[i].symbol = symbol

\* this.hotList.delete(symbol)
RemoveFromHotList(hl, symbol) == SelectSeq(hl, LAMBDA e : e.symbol # symbol)

\* the loop of removeOldestCoin from entry i on: the first entry whose addedAt
\* is strictly below every earlier one and below the starting oldestTime
RECURSIVE ScanOldest(_, _, _, _)
ScanOldest(hl, i, oldestTime, oldestSymbol) ==
  IF i > Len(hl) THEN oldestSymbol
  ELSE IF hl[i].addedAt < oldestTime
       THEN ScanOldest(hl, i + 1, hl[i].addedAt, hl[i].symbol)
       ELSE ScanOldest(hl, i + 1, oldestTime, oldestSymbol)

\* removeOldestCoin at clock value t: oldestTime starts at Date.now()
RemoveOldestCoin(hl, t) ==
  LET oldestSymbol == ScanOldest(hl, 1, t, NoSymbol)
  IN  IF oldestSymbol # NoSymbol THEN RemoveFromHotList(hl, oldestSymbol) ELSE hl

HotCoin(symbol, t, reason, volumeData) ==
  [symbol |-> symbol, addedAt |-> t, reason |-> reason, volumeData |-> volumeData]

\* an addToHotList without the already-present check: Map.set overwrites the
\* value of an existing key in place
AddToHotListNoCheck(hl, symbol, reason, volumeData, t) ==
  LET room == IF Len(hl) >= HotListSize THEN RemoveOldestCoin(hl, t) ELSE hl
  IN  IF IsHot(room, symbol)
      THEN [i \in 1..Len(room) |->
              IF room[i].symbol = symbol
              THEN HotCoin(symbol, t, reason, volumeData) ELSE room[i]]
      ELSE Append(room, HotCoin(symbol, t, reason, volumeData))

\* addToHotList at clock value t
AddToHotList(hl, symbol, reason, volumeData, t) ==
  IF IsHot(hl, symbol) THEN hl
  ELSE LET room == IF Len(hl) >= HotListSize THEN RemoveOldestCoin(hl, t) ELSE hl
       IN  Append(room, HotCoin(symbol, t, reason, volumeData))

\* a cleanupExpiredCoins that expires an entry as soon as its age reaches the TTL
CleanupExpiredCoinsEarly(hl, t) ==
  SelectSeq(hl, LAMBDA e : ~(t - e.addedAt >= HotListTTL))

\* cleanupExpiredCoins at clock value t
CleanupExpiredCoins(hl, t) ==
  SelectSeq(hl, LAMBDA e : ~(t - e.addedAt > HotListTTL))

\* ------------------------------------------------------- historical stats
HistIndex(hist, symbol) ==
  IF \E i \in 1..Len(hist) : hist[i].symbol = symbol
  THEN CHOOSE i \in 1..Len(hist) : hist[i].symbol = symbol
  ELSE 0

\* a recordArbitrage that adds the new value to the average without weighting
\* the average by the number of occurrences
RecordArbitrageUnweighted(hist, symbol, profit, t) ==
  LET i  == HistIndex(hist, symbol)
      h  == IF i = 0
            THEN [symbol |-> symbol, occurrences |-> 0, lastSeen |-> 0,
                  averageProfit |-> RInt(0)]
            ELSE hist[i]
      totalProfit == RAdd(h.averageProfit, profit)
      n  == h.occurrences + 1
      h2 == [symbol |-> symbol, occurrences |-> n, lastSeen |-> t,
             averageProfit |-> RDiv(totalProfit, RInt(n))]
  IN  IF i = 0 THEN Append(hist, h2) ELSE [hist EXCEPT ![i] = h2]

\* recordArbitrage at clock value t
RecordArbitrage(hist, symbol, profit, t) ==
  LET i  == HistIndex(hist, symbol)
      h  == IF i = 0
            THEN [symbol |-> symbol, occurrences |-> 0, lastSeen |-> 0,
                  averageProfit |-> RInt(0)]
            ELSE hist[i]
      totalProfit == RAdd(RMul(h.averageProfit, RInt(h.occurrences)), profit)
      n  == h.occurrences + 1
      h2 == [symbol |-> symbol, occurrences |-> n, lastSeen |-> t,
             averageProfit |-> RDiv(totalProfit, RInt(n))]
  IN  IF i = 0 THEN Append(hist, h2) ELSE [hist EXCEPT ![i] = h2]

\* a getHistoricallyProfitable that does not look at lastSeen
GetHistoricallyProfitableAnyAge(hist, minOccurrences, t) ==
  LET kept == SelectSeq(hist, LAMBDA d : d.occurrences >= minOccurrences)
  IN  [i \in 1..Len(kept) |-> kept[i].symbol]

\* getHistoricallyProfitable(minOccurrences) at clock value t
GetHistoricallyProfitable(hist, minOccurrences, t) ==
  LET weekAgo == t - WeekMs
      kept == SelectSeq(hist, LAMBDA d : d.occurrences >= minOccurrences /\ d.lastSeen > weekAgo)
  IN  [i \in 1..Len(kept) |-> kept[i].symbol]

\* the loop of addHistoricalCoins over the symbols from index i on
RECURSIVE AddHistoricalFrom(_, _, _, _)
AddHistoricalFrom(hl, syms, i, t) ==
  IF i > Len(syms) THEN hl
  ELSE IF ~IsHot(hl, syms[i]) /\ Len(hl) < HotListSize
       THEN AddHistoricalFrom(AddToHotList(hl, syms[i], "historical_pattern", 0, t), syms, i + 1, t)
       ELSE AddHistoricalFrom(hl, syms, i + 1, t)

\* addHistoricalCoins at clock value t
AddHistoricalCoins(hl, hist, t) ==
  AddHistoricalFrom(hl, GetHistoricallyProfitable(hist, MinOccurrences, t), 1, t)

\* ------------------------------------------------------- transfer status
\* String.toLowerCase on the venue ids in use
ToLowerCase(str) ==
  CASE str = "Binance" -> "binance"
    [] str = "Bybit" -> "bybit"
    [] str = "OKX" -> "okx"
    [] OTHER -> str

\* String.toUpperCase on the asset symbols in use
ToUpperCase(str) ==
  CASE str = "btc" -> "BTC"
    [] str = "eth" -> "ETH"
    [] str = "sol" -> "SOL"
    [] OTHER -> str

\* symbol.split('/')[0] on the symbols and trading pairs in use
BaseCoin(symbol) ==
  CASE symbol = "BTC/USDT" -> "BTC"
    [] symbol = "ETH/USDT" -> "ETH"
    [] symbol = "SOL/USDT" -> "SOL"
    [] OTHER -> symbol

\* isSuspended: a venue without an entry in the map has nothing suspended
IsSuspended(susp, exchange, symbol) ==
  LET baseCoin == BaseCoin(symbol)
      key == ToLowerCase(exchange)
  IN  IF key \in DOMAIN susp THEN ToUpperCase(baseCoin) \in susp[key] ELSE FALSE

\* a shouldSkipArbitrage that looks at the buy venue only
ShouldSkipArbitrageBuyOnly(susp, buyExchange, sellExchange, symbol) ==
  IsSuspended(susp, buyExchange, BaseCoin(symbol))

\* shouldSkipArbitrage
ShouldSkipArbitrage(susp, buyExchange, sellExchange, symbol) ==
  LET baseCoin == BaseCoin(symbol)
  IN  IF IsSuspended(susp, buyExchange, baseCoin) THEN TRUE
      ELSE IF IsSuspended(susp, sellExchange, baseCoin) THEN TRUE
      ELSE FALSE

\* Map.set on the suspendedTokens map
SuspendedSet(susp, name, suspended) ==
  [k \in DOMAIN susp \cup {name} |-> IF k = name THEN suspended ELSE susp[k]]

\* one round of updateSuspendedTokens over the venues from index i on: a
\* venue's entry is written only when its check returned a non-empty set
RECURSIVE UpdateSuspendedFrom(_, _, _)
UpdateSuspendedFrom(susp, report, i) ==
  IF i > Len(Venues) THEN susp
  ELSE UpdateSuspendedFrom(
         IF report[Venues[i]] # {} THEN SuspendedSet(susp, Venues[i], report[Venues[i]])
         ELSE susp,
         report, i + 1)

\* -------------------------------------------------------- pairwise engine
\* CEXService.getTradingFee: every exchangeInfo entry is created with
\* DEFAULT_FEES.cexTradingFee and never written again
GetTradingFee(exchangeId) == CexTradingFee

\* a calculateFees that prices the withdrawal fee as if it were in USDT
CalculateFeesNoConversion(buyExchange, sellExchange, price, withdrawalFeeInCoin) ==
  LET buyTradingFee == RMul(RInt(TradeAmountUsd), GetTradingFee(buyExchange))
      sellTradingFee == RMul(RInt(TradeAmountUsd), GetTradingFee(sellExchange))
      withdrawalFee == withdrawalFeeInCoin[buyExchange]
      gasFee == RInt(0)
  IN  [buyTradingFee |-> buyTradingFee, sellTradingFee |-> sellTradingFee,
       withdrawalFee |-> withdrawalFee, gasFee |-> gasFee,
       totalFees |-> RAdd(RAdd(RAdd(buyTradingFee, sellTradingFee), withdrawalFee), gasFee)]

\* calculateFees
CalculateFees(buyExchange, sellExchange, price, withdrawalFeeInCoin) ==
  LET buyTradingFee == RMul(RInt(TradeAmountUsd), GetTradingFee(buyExchange))
      sellTradingFee == RMul(RInt(TradeAmountUsd), GetTradingFee(sellExchange))
      withdrawalFee == RMul(withdrawalFeeInCoin[buyExchange], price)
      gasFee == RInt(0)
  IN  [buyTradingFee |-> buyTradingFee, sellTradingFee |-> sellTradingFee,
       withdrawalFee |-> withdrawalFee, gasFee |-> gasFee,
       totalFees |-> RAdd(RAdd(RAdd(buyTradingFee, sellTradingFee), withdrawalFee), gasFee)]

\* calculateArbitrage: the opportunity in a one-element sequence, or <<>> for null
CalculateArbitrage(symbol, buyExchange, sellExchange, buyPrice, sellPrice, susp, wfee, t) ==
  IF ShouldSkipArbitrage(susp, buyExchange, sellExchange, symbol) THEN <<>>
  ELSE
    LET priceDifference == RSub(sellPrice, buyPrice)
        percentageDifference == RMul(RDiv(priceDifference, buyPrice), RInt(100))
        fees == CalculateFees(buyExchange, sellExchange, buyPrice, wfee)
        estimatedProfit == RMul(RDiv(priceDifference, buyPrice), RInt(TradeAmountUsd))
        netProfit == RSub(estimatedProfit, fees.totalFees)
        netProfitPercentage == RMul(RDiv(netProfit, RInt(TradeAmountUsd)), RInt(100))
    IN  IF RLe(netProfit, RInt(0)) THEN <<>>
        ELSE << [symbol |-> symbol, type |-> "simple",
                 buyExchange |-> buyExchange, sellExchange |-> sellExchange,
                 buyPrice |-> buyPrice, sellPrice |-> sellPrice,
                 priceDifference |-> priceDifference,
                 percentageDifference |-> percentageDifference,
                 estimatedProfit |-> estimatedProfit, fees |-> fees,
                 netProfit |-> netProfit, netProfitPercentage |-> netProfitPercentage,
                 timestamp |-> t, tradeAmount |-> TradeAmountUsd, path |-> <<>>] >>

\* the body of the double loop of findArbitrageForSymbol for prices[i], prices[j]
ComparePair(symbol, price1, price2, susp, wfee, threshold, t) ==
  LET opportunity ==
        IF RLt(price1.price, price2.price)
        THEN CalculateArbitrage(symbol, price1.exchange, price2.exchange,
                                price1.price, price2.price, susp, wfee, t)
        ELSE CalculateArbitrage(symbol, price2.exchange, price1.exchange,
                                price2.price, price1.price, susp, wfee, t)
  IN  SelectSeq(opportunity, LAMBDA o : RLe(threshold, o.netProfitPercentage))

\* the double loop of findArbitrageForSymbol from the pair (i, j) on
RECURSIVE ComparePairsFrom(_, _, _, _, _, _, _, _)
ComparePairsFrom(symbol, prices, i, j, susp, wfee, threshold, t) ==
  IF i > Len(prices) THEN <<>>
  ELSE IF j > Len(prices)
       THEN ComparePairsFrom(symbol, prices, i + 1, i + 2, susp, wfee, threshold, t)
       ELSE ComparePair(symbol, prices[i], prices[j], susp, wfee, threshold, t)
            \o ComparePairsFrom(symbol, prices, i, j + 1, susp, wfee, threshold, t)

\* getPricesAcrossExchanges: the venues with a last price above 0, in the
\* order their fetches completed
RECURSIVE PricesFrom(_, _, _)
PricesFrom(board, order, i) ==
  IF i > Len(order) THEN <<>>
  ELSE (IF board[Venues[order[i]]] = Absent THEN <<>>
        ELSE << [exchange |-> Venues[order[i]], price |-> board[Venues[order[i]]]] >>)
       \o PricesFrom(board, order, i + 1)

\* a findArbitrageForSymbol that returns every opportunity with a positive net
\* profit, below the threshold or not
FindArbitrageForSymbolUnfiltered(symbol, board, order, susp, wfee, threshold, t) ==
  LET prices == PricesFrom(board, order, 1)
  IN  IF Len(prices) < 2 THEN <<>>
      ELSE ComparePairsFrom(symbol, prices, 1, 2, susp, wfee, RInt(0), t)

\* findArbitrageForSymbol
FindArbitrageForSymbol(symbol, board, order, susp, wfee, threshold, t) ==
  LET prices == PricesFrom(board, order, 1)
  IN  IF Len(prices) < 2 THEN <<>>
      ELSE ComparePairsFrom(symbol, prices, 1, 2, susp, wfee, threshold, t)

\* ------------------------------------------------------ triangular engine
\* calculateTriangularPath
CalculateTriangularPath(exchangeId, pairs, prices) ==
  LET rate == GetTradingFee(exchangeId)
      amount0 == RInt(TradeAmountUsd)
      coinAmount == RDiv(amount0, prices[1])
      fee1 == RMul(amount0, rate)
      intermediateAmount == RMul(coinAmount, prices[2])
      fee2 == RMul(intermediateAmount, rate)
      finalAmount == RMul(RSub(intermediateAmount, fee2), prices[3])
      fee3 == RMul(finalAmount, rate)
      finalValue == RSub(finalAmount, fee3)
      profit == RSub(finalValue, RInt(TradeAmountUsd))
  IN  [exchanges |-> <<exchangeId, exchangeId, exchangeId>>,
       symbols |-> pairs, prices |-> prices, estimatedProfit |-> profit,
       fees |-> [buyTradingFee |-> fee1, sellTradingFee |-> RAdd(fee2, fee3),
                 withdrawalFee |-> RInt(0), gasFee |-> RInt(0),
                 totalFees |-> RAdd(RAdd(fee1, fee2), fee3)],
       netProfit |-> profit]

InSeq(x, seq) == \E i \in 1..Len(seq) : seq[i] = x

\* the loop of formatPath over the pairs from index i on; a pair is <<base, quote>>
RECURSIVE FormatPathFrom(_, _, _)
FormatPathFrom(path, pairs, i) ==
  IF i > Len(pairs) THEN path
  ELSE LET withBase == IF InSeq(pairs[i][1], path) THEN path ELSE Append(path, pairs[i][1])
           withQuote == IF InSeq(pairs[i][2], withBase) THEN withBase
                        ELSE Append(withBase, pairs[i][2])
       IN  FormatPathFrom(withQuote, pairs, i + 1)

\* a formatPath that does not close the path
FormatPathOpen(pairs) == FormatPathFrom(<<"USDT">>, pairs, 1)

\* formatPath
FormatPath(pairs) ==
  LET path == FormatPathFrom(<<"USDT">>, pairs, 1)
  IN  IF path[Len(path)] # "USDT" THEN Append(path, "USDT") ELSE path

\* convertPathToOpportunity
ConvertPathToOpportunity(exchangeId, path, t) ==
  LET netProfitPercentage == RMul(RDiv(path.netProfit, RInt(TradeAmountUsd)), RInt(100))
  IN  [symbol |-> path.symbols[1][1], type |-> "triangular",
       buyExchange |-> exchangeId, sellExchange |-> exchangeId,
       buyPrice |-> path.prices[1], sellPrice |-> path.prices[Len(path.prices)],
       priceDifference |-> path.netProfit,
       percentageDifference |-> netProfitPercentage,
       estimatedProfit |-> path.estimatedProfit, fees |-> path.fees,
       netProfit |-> path.netProfit, netProfitPercentage |-> netProfitPercentage,
       timestamp |-> t, tradeAmount |-> TradeAmountUsd, path |-> FormatPath(path.symbols)]

\* a findPaths iteration that accepts a zero bid on the second leg
FindPathZeroBid(exchangeId, symbol, intermediate, tickers) ==
  IF tickers[1] = Absent \/ tickers[1] = RInt(0) THEN <<>>
  ELSE IF tickers[2] = Absent THEN <<>>
  ELSE IF tickers[3] = Absent \/ tickers[3] = RInt(0) THEN <<>>
  ELSE << CalculateTriangularPath(exchangeId,
            << <<symbol, "USDT">>, <<symbol, intermediate>>, <<intermediate, "USDT">> >>,
            tickers) >>

\* one iteration of the loop of findPaths: the path through one intermediate
\* currency, in a one-element sequence, or <<>> when a ticker is missing or zero
FindPath(exchangeId, symbol, intermediate, tickers) ==
  IF tickers[1] = Absent \/ tickers[1] = RInt(0) THEN <<>>
  ELSE IF tickers[2] = Absent \/ tickers[2] = RInt(0) THEN <<>>
  ELSE IF tickers[3] = Absent \/ tickers[3] = RInt(0) THEN <<>>
  ELSE << CalculateTriangularPath(exchangeId,
            << <<symbol, "USDT">>, <<symbol, intermediate>>, <<intermediate, "USDT">> >>,
            tickers) >>

\* the filter of findTriangularArbitrage over the paths of one symbol
TriangularOpportunities(exchangeId, paths, threshold, t) ==
  LET kept == SelectSeq(paths, LAMBDA p :
                /\ RLt(RInt(0), p.netProfit)
                /\ RLe(threshold, RMul(RDiv(p.netProfit, RInt(TradeAmountUsd)), RInt(100))))
  IN  [i \in 1..Len(kept) |-> ConvertPathToOpportunity(exchangeId, kept[i], t)]

\* the intermediate currencies findPaths tries: commonBases without USDT and USDC
Intermediates == SelectSeq(CommonBases, LAMBDA c : ~(c = "USDT" \/ c = "USDC"))

\* --------------------------------------------------------- volume scanner
RECURSIVE SumFrom(_, _)
\* volumes.reduce((sum, v) => sum + v, 0) over the entries from index i on
SumFrom(volumes, i) ==
  IF i > Len(volumes) THEN 0 ELSE volumes[i] + SumFrom(volumes, i + 1)

\* volumes in which one venue without a ticker voids the whole symbol
VenueVolumesAborting(board) ==
  [i \in 1..Len(board) |->
     IF \E j \in 1..Len(board) : board[j] = Absent THEN 0 ELSE board[i][1]]

\* the volumes of getVolumeDataForSymbol: `ticker?.volume || 0` per venue asked
VenueVolumes(board) ==
  [i \in 1..Len(board) |-> IF board[i] = Absent THEN 0 ELSE board[i][1]]

\* a history update that never drops a sample
PushVolumeUnbounded(history, currentVolume) == Append(history, currentVolume)

\* the history update of getVolumeDataForSymbol
PushVolume(history, currentVolume) ==
  LET pushed == Append(history, currentVolume)
  IN  IF Len(pushed) > HistoryWindow THEN Tail(pushed) ELSE pushed

\* volumeHistory[symbol] after getVolumeDataForSymbol
HistoryAfter(history, board) ==
  LET currentVolume == SumFrom(VenueVolumes(board), 1)
  IN  IF currentVolume = 0 THEN history ELSE PushVolume(history, currentVolume)

\* a getVolumeDataForSymbol whose average is taken over the earlier samples only
GetVolumeDataForSymbolPriorAverage(symbol, history, board, t) ==
  LET currentVolume == SumFrom(VenueVolumes(board), 1)
      averageVolume == IF Len(history) > 0
                       THEN Rat(SumFrom(history, 1), Len(history))
                       ELSE RInt(currentVolume)
      volumeSpike == IF RLt(RInt(0), averageVolume)
                     THEN RDiv(RInt(currentVolume), averageVolume)
                     ELSE RInt(1)
  IN  IF currentVolume = 0 THEN <<>>
      ELSE << [symbol |-> symbol, currentVolume |-> currentVolume,
               averageVolume |-> averageVolume, volumeSpike |-> volumeSpike,
               timestamp |-> t] >>

\* getVolumeDataForSymbol at clock value t: the sample, or nothing for null
GetVolumeDataForSymbol(symbol, history, board, t) ==
  LET currentVolume == SumFrom(VenueVolumes(board), 1)
      pushed == PushVolume(history, currentVolume)
      averageVolume == IF Len(pushed) > 0
                       THEN Rat(SumFrom(pushed, 1), Len(pushed))
                       ELSE RInt(currentVolume)
      volumeSpike == IF RLt(RInt(0), averageVolume)
                     THEN RDiv(RInt(currentVolume), averageVolume)
                     ELSE RInt(1)
  IN  IF currentVolume = 0 THEN <<>>
      ELSE << [symbol |-> symbol, currentVolume |-> currentVolume,
               averageVolume |-> averageVolume, volumeSpike |-> volumeSpike,
               timestamp |-> t] >>

\* an identifyVolumeSpikes that does not look at the absolute volume
IdentifyVolumeSpikesAnyVolume(data) ==
  SelectSeq(data, LAMBDA d : RLe(RInt(VolumeSpikeThreshold), d.volumeSpike))

\* identifyVolumeSpikes
IdentifyVolumeSpikes(data) ==
  SelectSeq(data, LAMBDA d : /\ RLe(RInt(VolumeSpikeThreshold), d.volumeSpike)
                             /\ d.currentVolume >= MinAbsoluteVolume)

\* an identifyHighVolume that asks for a spike as well
IdentifyHighVolumeSpiking(data) ==
  SelectSeq(data, LAMBDA d : /\ d.currentVolume >= MinAbsoluteVolume * 2
                             /\ RLe(RInt(VolumeSpikeThreshold), d.volumeSpike))

\* identifyHighVolume
IdentifyHighVolume(data) ==
  SelectSeq(data, LAMBDA d : d.currentVolume >= MinAbsoluteVolume * 2)

\* an addToHotList call of performVolumeScan, as logged
Proposal(symbol, reason) == [symbol |-> symbol, reason |-> reason]

RECURSIVE AdmitHighVolumeFrom(_, _, _, _)
\* the high-volume loop of performVolumeScan from index i on: the hot list
AdmitHighVolumeFrom(hl, high, i, t) ==
  IF i > Len(high) THEN hl
  ELSE IF ~IsHot(hl, high[i].symbol)
       THEN AdmitHighVolumeFrom(
              AddToHotList(hl, high[i].symbol, "high_volume", high[i].currentVolume, t),
              high, i + 1, t)
       ELSE AdmitHighVolumeFrom(hl, high, i + 1, t)

RECURSIVE HighVolumeProposalsFrom(_, _, _, _)
\* the high-volume loop of performVolumeScan from index i on: its addToHotList calls
HighVolumeProposalsFrom(hl, high, i, t) ==
  IF i > Len(high) THEN <<>>
  ELSE IF ~IsHot(hl, high[i].symbol)
       THEN <<Proposal(high[i].symbol, "high_volume")>> \o
            HighVolumeProposalsFrom(
              AddToHotList(hl, high[i].symbol, "high_volume", high[i].currentVolume, t),
              high, i + 1, t)
       ELSE HighVolumeProposalsFrom(hl, high, i + 1, t)

\* the volumes of the venues that returned a ticker (volumeMap.values())
Reported(vmap) ==
  LET tickers == SelectSeq(vmap, LAMBDA v : v # Absent)
  IN  [i \in 1..Len(tickers) |-> tickers[i][1]]

\* one iteration of the loop of identifyCrossExchangeDisparities: the symbol if
\* its disparity is set, nothing otherwise
Disparity(symbol, vmap) ==
  LET volumes == Reported(vmap)
      positive == {volumes[i] : i \in {j \in 1..Len(volumes) : volumes[j] > 0}}
      maxVolume == CHOOSE v \in {volumes[i] : i \in 1..Len(volumes)} :
                     \A i \in 1..Len(volumes) : volumes[i] <= v
      minVolume == CHOOSE v \in positive : \A w \in positive : v <= w
  IN  IF Len(volumes) < 2 THEN <<>>
      ELSE IF positive = {} THEN <<>>
      ELSE IF maxVolume >= DisparityFactor * minVolume THEN <<symbol>>
      ELSE <<>>

\* volumeData.find(v => v.symbol === symbol): its index, 0 if there is none
FindVolumeData(data, symbol) ==
  IF \E i \in 1..Len(data) : data[i].symbol = symbol
  THEN CHOOSE i \in 1..Len(data) :
         /\ data[i].symbol = symbol
         /\ \A j \in 1..(i - 1) : data[j].symbol # symbol
  ELSE 0

RECURSIVE AdmitDisparitiesFrom(_, _, _, _, _)
\* the disparity loop of performVolumeScan from index i on: the hot list
AdmitDisparitiesFrom(hl, found, data, i, t) ==
  IF i > Len(found) THEN hl
  ELSE LET k == FindVolumeData(data, found[i])
       IN  IF k # 0
           THEN AdmitDisparitiesFrom(
                  AddToHotList(hl, found[i], "cross_exchange_disparity",
                               data[k].currentVolume, t),
                  found, data, i + 1, t)
           ELSE AdmitDisparitiesFrom(hl, found, data, i + 1, t)

\* the disparity loop of performVolumeScan: its addToHotList calls
DisparityProposals(found, data) ==
  LET kept == SelectSeq(found, LAMBDA symbol : FindVolumeData(data, symbol) # 0)
  IN  [i \in 1..Len(kept) |-> Proposal(kept[i], "cross_exchange_disparity")]

\* ------------------------------------------------------------------ cache
\* a map with key k bound to v (Map.set)
MapSet(m, k, v) == [x \in DOMAIN m \cup {k} |-> IF x = k THEN v ELSE m[x]]

\* a map without key k (Map.delete)
MapDelete(m, k) == [x \in DOMAIN m \ {k} |-> m[x]]

\* the expiry test of Cache.get and Cache.cleanup at clock value t
Expired(entry, t) == t - entry.timestamp > entry.ttl

\* a Cache.get that returns whatever is stored, expired or not
CacheGetStale(c, key, t) ==
  IF key \notin DOMAIN c THEN Null ELSE c[key].data

\* what Cache.get returns at clock value t
CacheGet(c, key, t) ==
  IF key \notin DOMAIN c THEN Null
  ELSE IF Expired(c[key], t) THEN Null
  ELSE c[key].data

\* the cache Cache.get leaves at clock value t: an expired entry is deleted
CacheAfterGet(c, key, t) ==
  IF key \in DOMAIN c /\ Expired(c[key], t) THEN MapDelete(c, key) ELSE c

\* what Cache.has returns at clock value t
CacheHas(c, key, t) == CacheGet(c, key, t) # Null

\* Cache.set at clock value t
CacheSet(c, key, data, ttl, t) ==
  MapSet(c, key, [data |-> data, timestamp |-> t, ttl |-> ttl])

\* a Cache.cleanup that also removes the entries whose age is exactly their ttl
CacheCleanupEarly(c, t) ==
  [x \in {k \in DOMAIN c : t - c[k].timestamp < c[k].ttl} |-> c[x]]

\* Cache.cleanup at clock value t
CacheCleanup(c, t) ==
  [x \in {k \in DOMAIN c : ~Expired(c[k], t)} |-> c[x]]

\* ------------------------------------------------------------ fetchTicker
\* `ticker:${exchangeId}:${symbol}`
CacheKey(exchangeId, symbol) == <<"ticker", exchangeId, symbol>>

\* globalCache.get(cacheKey) on the ticker keys, null written as no ticker
CachedTicker(c, key, t) ==
  IF key \notin DOMAIN c THEN Absent
  ELSE IF Expired(c[key], t) THEN Absent
  ELSE c[key].data

\* a fetchTicker that asks the venue whatever the cache holds
FetchTickerUncached(c, exchangeId, symbol, answer, t) ==
  LET key == CacheKey(exchangeId, symbol)
      swept == CacheAfterGet(c, key, t)
  IN  IF exchangeId \notin VenueSet
      THEN [called |-> FALSE, result |-> Absent, cache |-> swept]
      ELSE IF answer = Absent
           THEN [called |-> TRUE, result |-> Absent, cache |-> swept]
           ELSE [called |-> TRUE, result |-> answer,
                 cache |-> CacheSet(swept, key, answer, CacheTtlPrices, t)]

\* a fetchTicker that caches the failure of the venue's call
FetchTickerCachingFailure(c, exchangeId, symbol, answer, t) ==
  LET key == CacheKey(exchangeId, symbol)
      cached == CachedTicker(c, key, t)
      swept == CacheAfterGet(c, key, t)
  IN  IF cached # Absent
      THEN [called |-> FALSE, result |-> cached, cache |-> swept]
      ELSE IF exchangeId \notin VenueSet
           THEN [called |-> FALSE, result |-> Absent, cache |-> swept]
           ELSE [called |-> TRUE, result |-> answer,
                 cache |-> CacheSet(swept, key, answer, CacheTtlPrices, t)]

\* fetchTicker at clock value t, the venue's call giving answer: whether the
\* venue was called, what is returned, and the cache left
FetchTickerOn(c, exchangeId, symbol, answer, t) ==
  LET key == CacheKey(exchangeId, symbol)
      cached == CachedTicker(c, key, t)
      swept == CacheAfterGet(c, key, t)
  IN  IF cached # Absent
      THEN [called |-> FALSE, result |-> cached, cache |-> swept]
      ELSE IF exchangeId \notin VenueSet
           THEN [called |-> FALSE, result |-> Absent, cache |-> swept]
           ELSE IF answer = Absent
                THEN [called |-> TRUE, result |-> Absent, cache |-> swept]
                ELSE [called |-> TRUE, result |-> answer,
                      cache |-> CacheSet(swept, key, answer, CacheTtlPrices, t)]

\* ------------------------------------------------------ configuration
\* NaN, written as a ratio no number has
NaN == <<0, 0>>
IsNaN(x) == x[2] = 0

\* <, > and their negations on JavaScript numbers: a comparison with NaN is false
JsLt(a, b) == ~IsNaN(a) /\ ~IsNaN(b) /\ RLt(a, b)

\* the settings as strings of the environment; "" is a variable not set
ThresholdEnv == {"", "-1", "0", "100", "101", "abc"}
SpikeEnv == {"", "0.5", "1", "abc"}
SizeEnv == {"", "0", "1", "1.5", "500", "501", "abc"}

DefaultEnv ==
  [ARBITRAGE_THRESHOLD |-> "", VOLUME_SPIKE_THRESHOLD |-> "", HOT_LIST_SIZE |-> ""]

\* parseFloat on the strings above: the number a string starts with, or NaN
ParseFloat(str) ==
  CASE str = "-1" -> Rat(-1, 1)
    [] str = "0" -> Rat(0, 1)
    [] str = "0.5" -> Rat(1, 2)
    [] str = "1" -> Rat(1, 1)
    [] str = "1.5" -> Rat(3, 2)
    [] str = "3" -> Rat(3, 1)
    [] str = "50" -> Rat(50, 1)
    [] str = "100" -> Rat(100, 1)
    [] str = "101" -> Rat(101, 1)
    [] str = "500" -> Rat(500, 1)
    [] str = "501" -> Rat(501, 1)
    [] OTHER -> NaN

\* parseInt: the integer digits a string starts with, or NaN
ParseInt(str) ==
  LET x == ParseFloat(str)
  IN  IF IsNaN(x) THEN NaN
      ELSE IF x[1] < 0 THEN RInt(-((-x[1]) \div x[2])) ELSE RInt(x[1] \div x[2])

\* process.env.X || fallback
OrDefault(str, fallback) == IF str = "" THEN fallback ELSE str

\* the config object config.ts builds from the environment
Config(e) ==
  [arbitrageThreshold |-> ParseFloat(OrDefault(e.ARBITRAGE_THRESHOLD, "3")),
   volumeSpikeThreshold |-> ParseFloat(OrDefault(e.VOLUME_SPIKE_THRESHOLD, "3")),
   hotListSize |-> ParseInt(OrDefault(e.HOT_LIST_SIZE, "50"))]

\* a validation that tests lower limits only
RejectedBelowOnly(c) ==
  \/ JsLt(c.arbitrageThreshold, RInt(0))
  \/ JsLt(c.volumeSpikeThreshold, RInt(1))
  \/ JsLt(c.hotListSize, RInt(1))

\* the three tests of config.ts that end in process.exit(1)
Rejected(c) ==
  \/ JsLt(c.arbitrageThreshold, RInt(0)) \/ JsLt(RInt(100), c.arbitrageThreshold)
  \/ JsLt(c.volumeSpikeThreshold, RInt(1))
  \/ JsLt(c.hotListSize, RInt(1)) \/ JsLt(RInt(500), c.hotListSize)

\* config.ts is loaded: the process exits with code 1 or goes on to main()
ValidateConfig ==
  /\ processPc = "load"
  /\ processPc' = IF Rejected(Config(env)) THEN "exit1" ELSE "main"
  /\ UNCHANGED <<now, env, hotVars, cacheVars, botVars, arbVars, sweepVars, scanVars,
                 taskVars>>

\* ------------------------------------------------------ hot-list actions
Op(name, symbol, reason) ==
  [op |-> name, symbol |-> symbol, reason |-> reason, size |-> Len(hotList)]

COp(name, key, value, found, evicted) ==
  [op |-> name, key |-> key, value |-> value, found |-> found, evicted |-> evicted]

\* Date.now() advances between two handlers
Tick ==
  /\ now < MaxClock
  /\ now' = now + 1
  /\ hotOp' = Op("tick", NoSymbol, "none")
  /\ cacheOp' = COp("tick", Null, Null, FALSE, FALSE)
  /\ UNCHANGED <<hotList, historicalArbitrage, records, cache, lastSet, unsweptCache,
                 fetchOp,
                 botVars, arbVars, sweepVars, bootVars, taskVars, scanVars>>

Admit ==
  \E symbol \in Symbols, p \in Proposals :
    /\ hotList' = AddToHotList(hotList, symbol, p[1], p[2], now)
    /\ hotOp' = Op("admit", symbol, p[1])
    /\ UNCHANGED <<now, historicalArbitrage, records, nonHot>>

Sweep ==
  /\ hotCleanupInterval
  /\ hotList' = CleanupExpiredCoins(hotList, now)
  /\ hotOp' = Op("sweep", NoSymbol, "none")
  /\ UNCHANGED <<now, historicalArbitrage, records, nonHot>>

Remove ==
  \E symbol \in Symbols :
    /\ hotList' = RemoveFromHotList(hotList, symbol)
    /\ hotOp' = Op("remove", symbol, "none")
    /\ UNCHANGED <<now, historicalArbitrage, records, nonHot>>

\* a clear() that empties the historical statistics together with the hot list
ClearWithHistory ==
  /\ hotList' = <<>>
  /\ historicalArbitrage' = <<>>
  /\ hotOp' = Op("clear", NoSymbol, "none")
  /\ UNCHANGED <<now, records, nonHot>>

Clear ==
  /\ hotList' = <<>>
  /\ hotOp' = Op("clear", NoSymbol, "none")
  /\ UNCHANGED <<now, historicalArbitrage, records, nonHot>>

RecordOutcome(symbols, profits) ==
  \E symbol \in symbols, profit \in profits :
    /\ records < MaxRecords
    /\ records' = records + 1
    /\ historicalArbitrage' = RecordArbitrage(historicalArbitrage, symbol, profit, now)
    /\ hotOp' = Op("record", symbol, "none")
    /\ UNCHANGED <<now, hotList, nonHot>>

Record == RecordOutcome(Tracked, TrackedProfits)

Reinstate ==
  /\ hotList' = AddHistoricalCoins(hotList, historicalArbitrage, now)
  /\ hotOp' = Op("reinstate", NoSymbol, "none")
  /\ UNCHANGED <<now, historicalArbitrage, records, nonHot>>

\* recordArbitrage(symbol, profit) called by a notification loop, with the call
\* kept in the log of recorded outcomes
RecordLogged ==
  \E symbol \in HistorySymbols, profit \in HistoryProfits :
    /\ records < MaxRecords
    /\ records' = records + 1
    /\ historicalArbitrage' = RecordArbitrage(historicalArbitrage, symbol, profit, now)
    /\ recorded' = Append(recorded, [symbol |-> symbol, netProfitPercentage |-> profit,
                                     timestamp |-> now])
    /\ hotOp' = Op("record", symbol, "none")
    /\ UNCHANGED <<now, hotList, cacheVars, botVars, sweepVars, bootVars, taskVars, scanVars, arbitrageThreshold,
                   suspendedTokens, evalPc, scanQueue, topHotSymbols, opportunities,
                   triQueue, triangularOpportunities, notifyQueue, alerts, delivered, evalOp>>

\* ------------------------------------------- addToHotList, statement by statement
\* the event loop runs a task while any synchronous call is on the stack
AnyTime == TRUE

\* the event loop runs a task only when the stack is empty: addToHotList is a
\* synchronous method with no await between its statements
StackEmpty == admitPc = "idle"

Observation(task) ==
  [task |-> task, size |-> Len(hotList), during |-> admitPc # "idle",
   after |-> admitCall.symbol]

\* Date.now() advances between two tasks
TickBetweenTasks ==
  /\ StackEmpty
  /\ now < MaxClock
  /\ now' = now + 1
  /\ hotOp' = Op("tick", NoSymbol, "none")
  /\ UNCHANGED <<hotList, historicalArbitrage, records, cacheVars, botVars, arbVars,
                 sweepVars, bootVars, scanVars, taskVars>>

\* a task calls addToHotList: the already-present check
AddToHotListCall ==
  \E symbol \in Symbols, p \in Proposals :
    /\ StackEmpty
    /\ admitCall' = [symbol |-> symbol, reason |-> p[1], volumeData |-> p[2],
                     before |-> hotList, evicted |-> FALSE]
    /\ admitPc' = IF IsHot(hotList, symbol) THEN "idle" ELSE "capacity"
    /\ observed' = Observation("admit")
    /\ hotOp' = Op("admit", symbol, p[1])
    /\ UNCHANGED <<now, hotList, historicalArbitrage, records, cacheVars, botVars,
                   arbVars, sweepVars, bootVars, scanVars>>

\* the capacity check and removeOldestCoin
AddToHotListCapacity ==
  /\ admitPc = "capacity"
  /\ hotList' = IF Len(hotList) >= HotListSize THEN RemoveOldestCoin(hotList, now)
                ELSE hotList
  /\ admitCall' = [admitCall EXCEPT !.evicted = Len(hotList') < Len(hotList)]
  /\ admitPc' = "set"
  /\ UNCHANGED <<now, historicalArbitrage, records, hotOp, cacheVars, botVars, arbVars,
                 sweepVars, bootVars, scanVars, observed>>

\* this.hotList.set(symbol, hotCoin), and the call returns
AddToHotListSet ==
  /\ admitPc = "set"
  /\ hotList' = Append(hotList, HotCoin(admitCall.symbol, now, admitCall.reason,
                                        admitCall.volumeData))
  /\ admitPc' = "idle"
  /\ UNCHANGED <<now, historicalArbitrage, records, hotOp, cacheVars, botVars, arbVars,
                 sweepVars, bootVars, scanVars, admitCall, observed>>

\* another task reads getSize()
GetSize ==
  /\ StackEmpty
  /\ observed' = Observation("size")
  /\ hotOp' = Op("size", NoSymbol, "none")
  /\ UNCHANGED <<now, hotList, historicalArbitrage, records, cacheVars, botVars, arbVars,
                 sweepVars, bootVars, scanVars, admitPc, admitCall>>

\* the cleanup timer's task
CleanupTask ==
  /\ StackEmpty
  /\ hotCleanupInterval
  /\ hotList' = CleanupExpiredCoins(hotList, now)
  /\ observed' = Observation("sweep")
  /\ hotOp' = Op("sweep", NoSymbol, "none")
  /\ UNCHANGED <<now, historicalArbitrage, records, cacheVars, botVars, arbVars,
                 sweepVars, bootVars, scanVars, admitPc, admitCall>>

\* --------------------------------------------------------- cache actions
Set ==
  \E key \in Keys, data \in Values, ttl \in 0..MaxTtl :
    /\ cache' = CacheSet(cache, key, data, ttl, now)
    /\ unsweptCache' = CacheSet(unsweptCache, key, data, ttl, now)
    /\ lastSet' = MapSet(lastSet, key, [data |-> data, timestamp |-> now, ttl |-> ttl])
    /\ cacheOp' = COp("set", key, data, FALSE, FALSE)
    /\ UNCHANGED <<now, fetchOp, nonCache>>

Get ==
  \E key \in Keys :
    /\ cache' = CacheAfterGet(cache, key, now)
    /\ unsweptCache' = CacheAfterGet(unsweptCache, key, now)
    /\ cacheOp' = COp("get", key, CacheGet(cache, key, now), FALSE,
                      key \in DOMAIN cache /\ key \notin DOMAIN cache')
    /\ UNCHANGED <<now, lastSet, fetchOp, nonCache>>

Has ==
  \E key \in Keys :
    /\ cache' = CacheAfterGet(cache, key, now)
    /\ unsweptCache' = CacheAfterGet(unsweptCache, key, now)
    /\ cacheOp' = COp("has", key, Null, CacheHas(cache, key, now),
                      key \in DOMAIN cache /\ key \notin DOMAIN cache')
    /\ UNCHANGED <<now, lastSet, fetchOp, nonCache>>

Delete ==
  \E key \in Keys :
    /\ cache' = MapDelete(cache, key)
    /\ unsweptCache' = MapDelete(unsweptCache, key)
    /\ lastSet' = MapDelete(lastSet, key)
    /\ cacheOp' = COp("delete", key, Null, key \in DOMAIN cache, FALSE)
    /\ UNCHANGED <<now, fetchOp, nonCache>>

ClearCache ==
  /\ cache' = <<>>
  /\ unsweptCache' = <<>>
  /\ lastSet' = <<>>
  /\ cacheOp' = COp("clear", Null, Null, FALSE, FALSE)
  /\ UNCHANGED <<now, fetchOp, nonCache>>

Cleanup ==
  /\ cacheCleanupInterval
  /\ cache' = CacheCleanup(cache, now)
  /\ cacheOp' = COp("cleanup", Null, Null, FALSE, cache' # cache)
  /\ UNCHANGED <<now, lastSet, unsweptCache, fetchOp, nonCache>>

\* CEXService.fetchTicker(exchangeId, symbol), the venue answering with a
\* ticker, or its call throwing
FetchTicker ==
  \E exchangeId \in FetchVenues, symbol \in FetchSymbols, answer \in VenueAnswers :
    LET fetched == FetchTickerOn(cache, exchangeId, symbol, answer, now)
        key == CacheKey(exchangeId, symbol)
    IN  /\ fetchOp.n < MaxFetches
        /\ cache' = fetched.cache
        /\ unsweptCache' = FetchTickerOn(unsweptCache, exchangeId, symbol, answer, now).cache
        /\ lastSet' = IF fetched.called /\ answer # Absent
                      THEN MapSet(lastSet, key, fetched.cache[key]) ELSE lastSet
        /\ fetchOp' = [n |-> fetchOp.n + 1, exchangeId |-> exchangeId, symbol |-> symbol,
                       answer |-> answer, called |-> fetched.called,
                       result |-> fetched.result,
                       prev |-> [exchangeId |-> fetchOp.exchangeId,
                                 symbol |-> fetchOp.symbol, called |-> fetchOp.called,
                                 result |-> fetchOp.result]]
        /\ UNCHANGED <<now, cacheOp, nonCache>>

\* ----------------------------------------------------------- bot actions
\* start() up to its first await: the initial performVolumeScan begins
Start ==
  /\ processPc = "main"
  /\ ~isRunning
  /\ starting < MaxInFlight
  /\ isRunning' = TRUE
  /\ starting' = starting + 1
  /\ stopped' = FALSE
  /\ UNCHANGED <<scanIntervalId, arbitrageIntervalId, scanTimers, arbitrageTimers,
                 volumeScans, arbitrageScans, nonBot>>

\* the initial scan of a start() call ends and start() schedules both timers
StartSchedule ==
  /\ starting > 0
  /\ scanTimers < MaxTimers
  /\ arbitrageTimers < MaxTimers
  /\ starting' = starting - 1
  /\ scanIntervalId' = TRUE
  /\ scanTimers' = scanTimers + 1
  /\ arbitrageIntervalId' = TRUE
  /\ arbitrageTimers' = arbitrageTimers + 1
  /\ UNCHANGED <<isRunning, volumeScans, arbitrageScans, stopped, nonBot>>

\* a volume-scan interval elapses: its callback calls performVolumeScan
ScanTimerFires ==
  /\ scanTimers > 0
  /\ volumeScans < MaxInFlight
  /\ volumeScans' = volumeScans + 1
  /\ UNCHANGED <<isRunning, scanIntervalId, arbitrageIntervalId, scanTimers, arbitrageTimers,
                 starting, arbitrageScans, stopped, nonBot>>

\* a performVolumeScan started by a timer returns
VolumeScanReturns ==
  /\ volumeScans > 0
  /\ volumeScans' = volumeScans - 1
  /\ UNCHANGED <<isRunning, scanIntervalId, arbitrageIntervalId, scanTimers, arbitrageTimers,
                 starting, arbitrageScans, stopped, nonBot>>

\* the 30-second interval elapses: its callback calls performArbitrageScan
ArbitrageTimerFires ==
  /\ arbitrageTimers > 0
  /\ arbitrageScans < MaxInFlight
  /\ arbitrageScans' = arbitrageScans + 1
  /\ UNCHANGED <<isRunning, scanIntervalId, arbitrageIntervalId, scanTimers, arbitrageTimers,
                 starting, volumeScans, stopped, nonBot>>

\* a performArbitrageScan returns
ArbitrageScanReturns ==
  /\ arbitrageScans > 0
  /\ arbitrageScans' = arbitrageScans - 1
  /\ UNCHANGED <<isRunning, scanIntervalId, arbitrageIntervalId, scanTimers, arbitrageTimers,
                 starting, volumeScans, stopped, nonBot>>

\* stop(): clearInterval on the two timers the fields refer to
Stop ==
  /\ isRunning
  /\ scanTimers' = IF scanIntervalId THEN scanTimers - 1 ELSE scanTimers
  /\ scanIntervalId' = FALSE
  /\ arbitrageTimers' = IF arbitrageIntervalId THEN arbitrageTimers - 1 ELSE arbitrageTimers
  /\ arbitrageIntervalId' = FALSE
  /\ isRunning' = FALSE
  /\ stopped' = TRUE
  /\ UNCHANGED <<starting, volumeScans, arbitrageScans, nonBot>>

\* ------------------------------------------------- evaluation cycle steps
EOp(name, symbol, exchange, intermediate, board, wfee, tickers, found) ==
  [op |-> name, symbol |-> symbol, exchange |-> exchange, intermediate |-> intermediate,
   board |-> board, wfee |-> wfee, tickers |-> tickers, found |-> found]

NoEOp(name) ==
  EOp(name, NoSymbol, NoSymbol, NoSymbol, NoQuotes, <<>>, <<>>, <<>>)

Min(a, b) == IF a < b THEN a ELSE b

\* the iterations of scanAllExchanges, findTriangularArbitrage and findPaths in
\* the order the nested loops make them
TriQueue(symbols) ==
  LET scanned == SubSeq(symbols, 1, Min(TriangularSymbolLimit, Len(symbols)))
      perExchange == Len(scanned) * Len(Intermediates)
  IN  [k \in 1..(Len(MajorExchanges) * perExchange) |->
         [exchange |-> MajorExchanges[((k - 1) \div perExchange) + 1],
          symbol |-> scanned[(((k - 1) % perExchange) \div Len(Intermediates)) + 1],
          intermediate |-> Intermediates[((k - 1) % Len(Intermediates)) + 1]]]

\* ExchangeStatusService.updateSuspendedTokens
UpdateSuspendedTokens ==
  \E report \in StatusReports :
    /\ suspendedTokens' = UpdateSuspendedFrom(suspendedTokens, report, 1)
    /\ evalOp' = [NoEOp("status") EXCEPT !.board = report]
    /\ UNCHANGED <<now, hotVars, cacheVars, botVars, sweepVars, bootVars, taskVars, scanVars,
                   arbitrageThreshold,
                   evalPc, scanQueue, topHotSymbols, opportunities, triQueue,
                   triangularOpportunities, notifyQueue, alerts, delivered, recorded>>

\* a slice that takes the last five symbols
TopHotSymbolsLatest(hotSymbols) ==
  SubSeq(hotSymbols, Len(hotSymbols) - Min(TopHotLimit, Len(hotSymbols)) + 1,
         Len(hotSymbols))

\* hotSymbols.slice(0, 5)
TopHotSymbols(hotSymbols) == SubSeq(hotSymbols, 1, Min(TopHotLimit, Len(hotSymbols)))

\* performArbitrageScan up to the first await inside scanArbitrageOpportunities
StartEvaluation ==
  /\ evalPc = "idle"
  /\ LET hotSymbols == GetHotSymbols(hotList)
     IN  IF Len(hotSymbols) = 0
         THEN /\ evalPc' = "done"
              /\ UNCHANGED <<scanQueue, topHotSymbols>>
         ELSE /\ evalPc' = "pairwise"
              /\ scanQueue' = hotSymbols
              /\ topHotSymbols' = TopHotSymbols(hotSymbols)
  /\ evalOp' = NoEOp("start")
  /\ UNCHANGED <<now, hotVars, cacheVars, botVars, sweepVars, bootVars, taskVars, scanVars,
                 arbitrageThreshold,
                 suspendedTokens, opportunities, triQueue, triangularOpportunities,
                 notifyQueue, alerts, delivered, recorded>>

\* a scan loop that ends at the first symbol no venue has a price for
PairwiseStepAborting(boards) ==
  /\ evalPc = "pairwise"
  /\ \E board \in boards, order \in VenueOrders, wfee \in WithdrawalSchedules :
       LET symbol == Head(scanQueue)
           found == FindArbitrageForSymbol(symbol, board, order, suspendedTokens,
                                           wfee, arbitrageThreshold, now)
           all == opportunities \o found
           rest == IF board = NoQuotes THEN <<>> ELSE Tail(scanQueue)
       IN  /\ opportunities' = all
           /\ scanQueue' = rest
           /\ evalOp' = EOp("pairwise", symbol, NoSymbol, NoSymbol, board, wfee,
                            <<>>, found)
           /\ IF rest # <<>>
              THEN UNCHANGED <<evalPc, notifyQueue, triQueue>>
              ELSE IF all # <<>>
                   THEN /\ evalPc' = "notify"
                        /\ notifyQueue' = all
                        /\ UNCHANGED triQueue
                   ELSE /\ evalPc' = "triangular"
                        /\ triQueue' = TriQueue(topHotSymbols)
                        /\ UNCHANGED notifyQueue
  /\ UNCHANGED <<now, hotVars, cacheVars, botVars, sweepVars, bootVars, taskVars, scanVars,
                 arbitrageThreshold,
                 suspendedTokens, topHotSymbols, triangularOpportunities, alerts, delivered,
                 recorded>>

\* one iteration of the scan loop of scanArbitrageOpportunities
PairwiseStep(boards) ==
  /\ evalPc = "pairwise"
  /\ \E board \in boards, order \in VenueOrders, wfee \in WithdrawalSchedules :
       LET symbol == Head(scanQueue)
           found == FindArbitrageForSymbol(symbol, board, order, suspendedTokens,
                                           wfee, arbitrageThreshold, now)
           all == opportunities \o found
       IN  /\ opportunities' = all
           /\ scanQueue' = Tail(scanQueue)
           /\ evalOp' = EOp("pairwise", symbol, NoSymbol, NoSymbol, board, wfee,
                            <<>>, found)
           /\ IF Tail(scanQueue) # <<>>
              THEN UNCHANGED <<evalPc, notifyQueue, triQueue>>
              ELSE IF all # <<>>
                   THEN /\ evalPc' = "notify"
                        /\ notifyQueue' = all
                        /\ UNCHANGED triQueue
                   ELSE /\ evalPc' = "triangular"
                        /\ triQueue' = TriQueue(topHotSymbols)
                        /\ UNCHANGED notifyQueue
  /\ UNCHANGED <<now, hotVars, cacheVars, botVars, sweepVars, bootVars, taskVars, scanVars,
                 arbitrageThreshold,
                 suspendedTokens, topHotSymbols, triangularOpportunities, alerts, delivered,
                 recorded>>

ScanSymbol == PairwiseStep(QuoteBoards)

ScanSymbolQuiet == PairwiseStep(QuietBoards)

\* a notification loop that sends the alert and records nothing
NotifyAlertOnly ==
  /\ evalPc \in {"notify", "notifyTri"}
  /\ LET opportunity == Head(notifyQueue)
         passes == RLe(arbitrageThreshold, opportunity.netProfitPercentage)
     IN  /\ alerts' = IF passes THEN Append(alerts, opportunity) ELSE alerts
         /\ delivered' = IF passes THEN Append(delivered, TRUE) ELSE delivered
         /\ UNCHANGED <<recorded, historicalArbitrage>>
  /\ notifyQueue' = Tail(notifyQueue)
  /\ IF Tail(notifyQueue) # <<>>
     THEN UNCHANGED <<evalPc, triQueue>>
     ELSE IF evalPc = "notify"
          THEN /\ evalPc' = "triangular"
               /\ triQueue' = TriQueue(topHotSymbols)
          ELSE /\ evalPc' = "done"
               /\ UNCHANGED triQueue
  /\ evalOp' = NoEOp("notify")
  /\ UNCHANGED <<now, hotList, records, hotOp, cacheVars, botVars, sweepVars, bootVars, taskVars, scanVars,
                 arbitrageThreshold,
                 suspendedTokens, scanQueue, topHotSymbols, opportunities,
                 triangularOpportunities>>

\* a notification loop that a failed delivery ends, as an exception thrown by
\* sendArbitrageAlert would
NotifyStepAborting(outcomes) ==
  /\ evalPc \in {"notify", "notifyTri"}
  /\ \E sent \in outcomes :
       LET opportunity == Head(notifyQueue)
           passes == RLe(arbitrageThreshold, opportunity.netProfitPercentage)
           thrown == passes /\ ~sent
       IN  /\ alerts' = IF passes THEN Append(alerts, opportunity) ELSE alerts
           /\ delivered' = IF passes THEN Append(delivered, sent) ELSE delivered
           /\ recorded' = IF passes /\ sent THEN Append(recorded, opportunity) ELSE recorded
           /\ historicalArbitrage' =
                IF passes /\ sent
                THEN RecordArbitrage(historicalArbitrage, opportunity.symbol,
                                     opportunity.netProfitPercentage, now)
                ELSE historicalArbitrage
           /\ notifyQueue' = Tail(notifyQueue)
           /\ IF thrown
              THEN /\ evalPc' = "done"
                   /\ UNCHANGED triQueue
              ELSE IF Tail(notifyQueue) # <<>>
                   THEN UNCHANGED <<evalPc, triQueue>>
                   ELSE IF evalPc = "notify"
                        THEN /\ evalPc' = "triangular"
                             /\ triQueue' = TriQueue(topHotSymbols)
                        ELSE /\ evalPc' = "done"
                             /\ UNCHANGED triQueue
  /\ evalOp' = NoEOp("notify")
  /\ UNCHANGED <<now, hotList, records, hotOp, cacheVars, botVars, sweepVars, bootVars, taskVars, scanVars,
                 arbitrageThreshold,
                 suspendedTokens, scanQueue, topHotSymbols, opportunities,
                 triangularOpportunities>>

\* one iteration of a notification loop, of scanArbitrageOpportunities or of
\* performArbitrageScan: the alert, sent or failed as the sink decides, then
\* recordArbitrage
NotifyStep(outcomes) ==
  /\ evalPc \in {"notify", "notifyTri"}
  /\ LET opportunity == Head(notifyQueue)
         passes == RLe(arbitrageThreshold, opportunity.netProfitPercentage)
     IN  /\ alerts' = IF passes THEN Append(alerts, opportunity) ELSE alerts
         /\ \E sent \in outcomes :
              delivered' = IF passes THEN Append(delivered, sent) ELSE delivered
         /\ recorded' = IF passes THEN Append(recorded, opportunity) ELSE recorded
         /\ historicalArbitrage' =
              IF passes
              THEN RecordArbitrage(historicalArbitrage, opportunity.symbol,
                                   opportunity.netProfitPercentage, now)
              ELSE historicalArbitrage
  /\ notifyQueue' = Tail(notifyQueue)
  /\ IF Tail(notifyQueue) # <<>>
     THEN UNCHANGED <<evalPc, triQueue>>
     ELSE IF evalPc = "notify"
          THEN /\ evalPc' = "triangular"
               /\ triQueue' = TriQueue(topHotSymbols)
          ELSE /\ evalPc' = "done"
               /\ UNCHANGED triQueue
  /\ evalOp' = NoEOp("notify")
  /\ UNCHANGED <<now, hotList, records, hotOp, cacheVars, botVars, sweepVars, bootVars, taskVars, scanVars,
                 arbitrageThreshold,
                 suspendedTokens, scanQueue, topHotSymbols, opportunities,
                 triangularOpportunities>>

\* the notification step when every Telegram message goes out
Notify == NotifyStep({TRUE})

\* the notification step when a Telegram message may fail
NotifySink == NotifyStep(BOOLEAN)

\* no venue lists a market of a currency against itself: fetchTicker catches
\* the venue's error and returns null for such a pair
Listed(item, tickers) ==
  item.symbol = item.intermediate => tickers[2] = Absent

\* one iteration of the loop of findPaths with its share of the filter of
\* findTriangularArbitrage; after the last one, the rest of performArbitrageScan
\* up to its first alert
TriangularStep(cases) ==
  /\ evalPc = "triangular"
  /\ \E tickers \in { c \in cases : Listed(Head(triQueue), c) } :
       LET item == Head(triQueue)
           paths == FindPath(item.exchange, item.symbol, item.intermediate, tickers)
           found == TriangularOpportunities(item.exchange, paths, arbitrageThreshold, now)
           all == triangularOpportunities \o found
           totalOpportunities == Len(opportunities) + Len(all)
       IN  /\ triangularOpportunities' = all
           /\ triQueue' = Tail(triQueue)
           /\ evalOp' = EOp("triangular", item.symbol, item.exchange, item.intermediate,
                            NoQuotes, <<>>, tickers, found)
           /\ IF Tail(triQueue) # <<>>
              THEN UNCHANGED <<evalPc, notifyQueue>>
              ELSE IF totalOpportunities > 0 /\ all # <<>>
                   THEN /\ evalPc' = "notifyTri"
                        /\ notifyQueue' = all
                   ELSE /\ evalPc' = "done"
                        /\ UNCHANGED notifyQueue
  /\ UNCHANGED <<now, hotVars, cacheVars, botVars, sweepVars, bootVars, taskVars, scanVars,
                 arbitrageThreshold,
                 suspendedTokens, scanQueue, topHotSymbols, opportunities, alerts, delivered,
                 recorded>>

EvaluatePath == TriangularStep(TickerCases)

EvaluatePathQuiet == TriangularStep(NoTickers)

\* a profitable cycle on a venue, or no ticker at all
SinkTickers == {<<<<100, 1>>, <<1, 50>>, <<5300, 1>>>>, <<Absent, Absent, Absent>>}

EvaluatePathSink == TriangularStep(SinkTickers)

\* --------------------------------------------------- discovery cycle steps
SOp(name) == [op |-> name, hotList |-> hotList]

\* performVolumeScan up to the first await inside scanVolumes
StartVolumeScan ==
  /\ volumeScanPc = "idle"
  /\ volumeScanPc' = "scan"
  /\ volumeQueue' = ScanCoins
  /\ scanVolumeData' = <<>>
  /\ scanOp' = SOp("start")
  /\ UNCHANGED <<now, hotVars, cacheVars, botVars, arbVars, sweepVars, bootVars, taskVars, volumeHistory,
                 volumeSpikes, spikeIndex, disparityQueue, disparities, volumeAlerts,
                 proposed, venueTickers>>

\* the last step of performVolumeScan: addHistoricalCoins and the statistics
FinishVolumeScan(hl) ==
  /\ hotList' = AddHistoricalCoins(hl, historicalArbitrage, now)
  /\ volumeScanPc' = "done"

\* performVolumeScan from the high-volume loop to its next await
HighVolumeAndOn(data) ==
  LET high == IdentifyHighVolume(data)
      admitted == AdmitHighVolumeFrom(hotList, high, 1, now)
      hotSymbols == GetHotSymbols(admitted)
  IN  /\ proposed' = proposed \o HighVolumeProposalsFrom(hotList, high, 1, now)
      /\ scanOp' = SOp("high")
      /\ IF Len(hotSymbols) > 0
         THEN /\ hotList' = admitted
              /\ volumeScanPc' = "disparity"
              /\ disparityQueue' =
                   SubSeq(hotSymbols, 1, Min(DisparitySymbolLimit, Len(hotSymbols)))
              /\ disparities' = <<>>
         ELSE /\ FinishVolumeScan(admitted)
              /\ UNCHANGED <<disparityQueue, disparities>>

\* the spike loop of performVolumeScan up to its await: addToHotList of spike i
AdmitSpike(spikes, i) ==
  /\ hotList' = AddToHotList(hotList, spikes[i].symbol, "volume_spike",
                             spikes[i].currentVolume, now)
  /\ proposed' = Append(proposed, Proposal(spikes[i].symbol, "volume_spike"))
  /\ spikeIndex' = i
  /\ volumeScanPc' = "alert"
  /\ scanOp' = SOp("spike")
  /\ UNCHANGED <<disparityQueue, disparities>>

\* a scan that hands its samples over after the first symbol
ScanFinishedEarly(rest) == TRUE

\* scanVolumes returns when the loop over the batches has ended
ScanFinished(rest) == rest = <<>>

\* one getVolumeDataForSymbol of scanBatch; after the last one, the rest of
\* performVolumeScan up to its next await
ScanVolume ==
  /\ volumeScanPc = "scan"
  /\ \E board \in VolumeBoards :
       LET symbol == Head(volumeQueue)
           history == volumeHistory[symbol]
           data == scanVolumeData \o GetVolumeDataForSymbol(symbol, history, board, now)
           spikes == IdentifyVolumeSpikes(data)
       IN  /\ volumeHistory' = [volumeHistory EXCEPT ![symbol] = HistoryAfter(history, board)]
           /\ venueTickers' = [venueTickers EXCEPT ![symbol] = board]
           /\ scanVolumeData' = data
           /\ volumeQueue' = Tail(volumeQueue)
           /\ IF ~ScanFinished(Tail(volumeQueue))
              THEN /\ scanOp' = SOp("scan")
                   /\ UNCHANGED <<hotList, volumeScanPc, volumeSpikes, spikeIndex,
                                  disparityQueue, disparities, proposed>>
              ELSE IF data = <<>>
                   THEN /\ volumeScanPc' = "done"
                        /\ scanOp' = SOp("nodata")
                        /\ UNCHANGED <<hotList, volumeSpikes, spikeIndex, disparityQueue,
                                       disparities, proposed>>
                   ELSE /\ volumeSpikes' = spikes
                        /\ IF spikes # <<>>
                           THEN AdmitSpike(spikes, 1)
                           ELSE /\ HighVolumeAndOn(data)
                                /\ spikeIndex' = 0
  /\ UNCHANGED <<now, historicalArbitrage, records, hotOp, cacheVars, botVars, arbVars,
                 sweepVars, bootVars, taskVars, volumeAlerts>>

\* performVolumeScan resumes after sendVolumeAlert
AlertSent ==
  /\ volumeScanPc = "alert"
  /\ volumeAlerts' = Append(volumeAlerts, volumeSpikes[spikeIndex].symbol)
  /\ IF spikeIndex < Len(volumeSpikes)
     THEN AdmitSpike(volumeSpikes, spikeIndex + 1)
     ELSE /\ HighVolumeAndOn(scanVolumeData)
          /\ UNCHANGED spikeIndex
  /\ UNCHANGED <<now, historicalArbitrage, records, hotOp, cacheVars, botVars, arbVars,
                 sweepVars, bootVars, taskVars, volumeQueue, volumeHistory, scanVolumeData, volumeSpikes,
                 venueTickers>>

\* the tickers getVolumeData can get for a symbol: those of this cycle's scan
\* for a scanned symbol (fetchTicker serves them from its cache, or the venue
\* gives them again), any for a symbol the scan does not cover
VolumeMapsOf(symbol) ==
  IF symbol \in DOMAIN venueTickers THEN {venueTickers[symbol]} ELSE VolumeMaps

\* one iteration of the loop of identifyCrossExchangeDisparities; after the
\* last one, the rest of performVolumeScan
CheckDisparity ==
  /\ volumeScanPc = "disparity"
  /\ \E vmap \in VolumeMapsOf(Head(disparityQueue)) :
       LET all == disparities \o Disparity(Head(disparityQueue), vmap)
       IN  /\ disparities' = all
           /\ disparityQueue' = Tail(disparityQueue)
           /\ IF Tail(disparityQueue) # <<>>
              THEN UNCHANGED <<hotList, volumeScanPc, proposed>>
              ELSE /\ FinishVolumeScan(AdmitDisparitiesFrom(hotList, all, scanVolumeData, 1, now))
                   /\ proposed' = proposed \o DisparityProposals(all, scanVolumeData)
  /\ scanOp' = SOp("disparity")
  /\ UNCHANGED <<now, historicalArbitrage, records, hotOp, cacheVars, botVars, arbVars,
                 sweepVars, bootVars, taskVars, volumeQueue, volumeHistory, scanVolumeData, volumeSpikes,
                 spikeIndex, volumeAlerts, venueTickers>>

\* the discovery state before any scan, the scanner holding the given histories
InitDiscovery(histories) ==
  /\ volumeScanPc = "idle"
  /\ volumeQueue = <<>>
  /\ volumeHistory \in [{ScanCoins[i] : i \in 1..Len(ScanCoins)} -> histories]
  /\ scanVolumeData = <<>>
  /\ volumeSpikes = <<>>
  /\ spikeIndex = 0
  /\ disparityQueue = <<>>
  /\ disparities = <<>>
  /\ volumeAlerts = <<>>
  /\ proposed = <<>>
  /\ scanOp = [op |-> "init", hotList |-> <<>>]
  /\ venueTickers = [c \in {ScanCoins[i] : i \in 1..Len(ScanCoins)} |-> <<Absent, Absent, Absent>>]

InitHot ==
  /\ hotList = <<>>
  /\ historicalArbitrage = <<>>
  /\ records = 0
  /\ hotOp = [op |-> "init", symbol |-> NoSymbol, reason |-> "none", size |-> 0]

InitCache ==
  /\ cache = <<>>
  /\ unsweptCache = <<>>
  /\ lastSet = <<>>
  /\ cacheOp = [op |-> "init", key |-> Null, value |-> Null, found |-> FALSE, evicted |-> FALSE]
  /\ fetchOp = [n |-> 0, exchangeId |-> "none", symbol |-> "none", answer |-> Absent,
                called |-> FALSE, result |-> Absent,
                prev |-> [exchangeId |-> "none", symbol |-> "none", called |-> FALSE,
                          result |-> Absent]]

InitBot ==
  /\ isRunning = FALSE
  /\ scanIntervalId = FALSE
  /\ arbitrageIntervalId = FALSE
  /\ scanTimers = 0
  /\ arbitrageTimers = 0
  /\ starting = 0
  /\ volumeScans = 0
  /\ arbitrageScans = 0
  /\ stopped = FALSE

\* no addToHotList call is on the stack and no task has looked at the hot list
InitTask ==
  /\ admitPc = "idle"
  /\ admitCall = [symbol |-> NoSymbol, reason |-> "none", volumeData |-> 0,
                  before |-> <<>>, evicted |-> FALSE]
  /\ observed = [task |-> "none", size |-> 0, during |-> FALSE, after |-> NoSymbol]

\* config.ts loaded with no setting in the environment, and main() entered
InitBoot ==
  /\ env = DefaultEnv
  /\ processPc = "main"

\* the module-level hotListService and globalCache start their sweep timers
\* in their constructors
InitSweep ==
  /\ hotCleanupInterval = TRUE
  /\ cacheCleanupInterval = TRUE

\* the evaluation state before any scan, under the given configuration
InitEvaluation(thresholds) ==
  /\ arbitrageThreshold \in thresholds
  /\ suspendedTokens = <<>>
  /\ evalPc = "idle"
  /\ scanQueue = <<>>
  /\ topHotSymbols = <<>>
  /\ opportunities = <<>>
  /\ triQueue = <<>>
  /\ triangularOpportunities = <<>>
  /\ notifyQueue = <<>>
  /\ alerts = <<>>
  /\ delivered = <<>>
  /\ recorded = <<>>
  /\ evalOp = NoEOp("init")

InitArb == InitEvaluation({RInt(DefaultThreshold)})

Init ==
  /\ now = 0
  /\ InitHot
  /\ InitCache
  /\ InitBot
  /\ InitArb
  /\ InitSweep
  /\ InitBoot
  /\ InitTask
  /\ InitDiscovery({<<>>})

\* the hot list after the volume scan admitted the given symbols at clock 0
RECURSIVE Admitted(_, _)
Admitted(symbols, i) ==
  IF i = 0 THEN <<>>
  ELSE AddToHotList(Admitted(symbols, i - 1), symbols[i], "volume_spike", 2, 0)

\* an evaluation cycle starts on a hot list the volume scan has filled
InitCycle(seeds) ==
  /\ now = 0
  /\ hotList \in {Admitted(seed, Len(seed)) : seed \in seeds}
  /\ historicalArbitrage = <<>>
  /\ records = 0
  /\ hotOp = [op |-> "init", symbol |-> NoSymbol, reason |-> "none", size |-> 0]
  /\ InitCache
  /\ InitBot
  /\ InitEvaluation(Thresholds)
  /\ InitSweep
  /\ InitBoot
  /\ InitTask
  /\ InitDiscovery({<<>>})

NextHot == Tick \/ Admit \/ Sweep \/ Remove \/ Clear \/ Record \/ Reinstate

SpecHot == Init /\ [][NextHot]_vars

NextCache == Tick \/ Set \/ Get \/ Has \/ Delete \/ ClearCache \/ Cleanup

SpecCache == Init /\ [][NextCache]_vars

NextBot ==
  \/ Start \/ StartSchedule \/ Stop
  \/ ScanTimerFires \/ VolumeScanReturns
  \/ ArbitrageTimerFires \/ ArbitrageScanReturns
  \/ Sweep \/ Cleanup

SpecBot == Init /\ [][NextBot]_vars

NextHistory == Tick \/ RecordLogged

SpecHistory == Init /\ [][NextHistory]_vars

NextArb ==
  \/ UpdateSuspendedTokens \/ StartEvaluation \/ ScanSymbol \/ Notify
  \/ EvaluatePathQuiet

SpecArb == InitCycle(ArbSeeds) /\ [][NextArb]_vars

\* a discovery cycle starts on a hot list and on volume histories that earlier
\* cycles left
InitScan ==
  /\ now = 0
  /\ hotList \in {Admitted(seed, Len(seed)) : seed \in ScanSeeds}
  /\ historicalArbitrage = <<>>
  /\ records = 0
  /\ hotOp = [op |-> "init", symbol |-> NoSymbol, reason |-> "none", size |-> 0]
  /\ InitCache
  /\ InitBot
  /\ InitArb
  /\ InitSweep
  /\ InitBoot
  /\ InitTask
  /\ InitDiscovery(VolumeHistories)

NextScan == StartVolumeScan \/ ScanVolume \/ AlertSent \/ CheckDisparity

SpecScan == InitScan /\ [][NextScan]_vars

\* a discovery cycle starts on rolling windows that are empty, nearly full or full
InitWindow ==
  /\ now = 0
  /\ hotList \in {Admitted(seed, Len(seed)) : seed \in ScanSeeds}
  /\ historicalArbitrage = <<>>
  /\ records = 0
  /\ hotOp = [op |-> "init", symbol |-> NoSymbol, reason |-> "none", size |-> 0]
  /\ InitCache
  /\ InitBot
  /\ InitArb
  /\ InitSweep
  /\ InitBoot
  /\ InitTask
  /\ InitDiscovery(WindowHistories)

SpecWindow == InitWindow /\ [][NextScan]_vars

\* the bot after start() has returned: running, both periodic timers scheduled
InitRunning ==
  /\ isRunning = TRUE
  /\ scanIntervalId = TRUE
  /\ arbitrageIntervalId = TRUE
  /\ scanTimers = 1
  /\ arbitrageTimers = 1
  /\ starting = 0
  /\ volumeScans = 0
  /\ arbitrageScans = 0
  /\ stopped = FALSE

\* a running bot whose scanner and hot list earlier cycles have filled
InitShutdown ==
  /\ now = 0
  /\ hotList = Admitted(<<"SOL">>, 1)
  /\ historicalArbitrage = <<>>
  /\ records = 0
  /\ hotOp = [op |-> "init", symbol |-> NoSymbol, reason |-> "none", size |-> 0]
  /\ InitCache
  /\ InitRunning
  /\ InitArb
  /\ InitSweep
  /\ InitBoot
  /\ InitTask
  /\ InitDiscovery({<<10000, 20000, 20000>>})

\* the volume-scan timer fires and its callback runs performVolumeScan up to
\* its first await
TimedVolumeScan ==
  /\ scanTimers > 0
  /\ StartVolumeScan

\* the arbitrage timer fires and its callback runs performArbitrageScan up to
\* its first await
TimedEvaluation ==
  /\ arbitrageTimers > 0
  /\ StartEvaluation

NextShutdown ==
  \/ TimedVolumeScan \/ ScanVolume \/ AlertSent \/ CheckDisparity
  \/ TimedEvaluation \/ ScanSymbolQuiet \/ Notify \/ EvaluatePathQuiet
  \/ Stop

SpecShutdown == InitShutdown /\ [][NextShutdown]_vars

\* a running bot whose hot list earlier discovery cycles have filled
InitEvaluating ==
  /\ now = 0
  /\ hotList \in {Admitted(seed, Len(seed)) : seed \in ArbSeeds \cup TriSeeds}
  /\ historicalArbitrage = <<>>
  /\ records = 0
  /\ hotOp = [op |-> "init", symbol |-> NoSymbol, reason |-> "none", size |-> 0]
  /\ InitCache
  /\ InitRunning
  /\ InitArb
  /\ InitSweep
  /\ InitBoot
  /\ InitTask
  /\ InitDiscovery({<<>>})

\* what the running bot does about evaluation: the callback of the timer
\* start() schedules and the cycle it starts; a step that can be taken is taken
NextRunning == TimedEvaluation \/ ScanSymbolQuiet \/ Notify \/ EvaluatePathQuiet

SpecRunning == InitEvaluating /\ [][NextRunning]_vars /\ WF_vars(NextRunning)

NextTri == StartEvaluation \/ ScanSymbolQuiet \/ Notify \/ EvaluatePath

SpecTri == InitCycle(TriSeeds) /\ [][NextTri]_vars

\* an evaluation cycle whose Telegram messages may fail
NextSink == StartEvaluation \/ ScanSymbolQuiet \/ NotifySink \/ EvaluatePathSink

SpecSink == InitCycle(TriSeeds) /\ [][NextSink]_vars

\* the process from the load of config.ts on, under any environment
InitStartup ==
  /\ now = 0
  /\ InitHot
  /\ InitCache
  /\ InitBot
  /\ InitSweep
  /\ InitArb
  /\ InitDiscovery({<<>>})
  /\ InitTask
  /\ env \in [ARBITRAGE_THRESHOLD : ThresholdEnv, VOLUME_SPIKE_THRESHOLD : SpikeEnv,
              HOT_LIST_SIZE : SizeEnv]
  /\ processPc = "load"

NextStartup ==
  \/ ValidateConfig
  \/ Start \/ StartSchedule \/ Stop
  \/ ScanTimerFires \/ VolumeScanReturns

SpecStartup == InitStartup /\ [][NextStartup]_vars

\* tasks of the event loop around addToHotList calls
NextAdmit ==
  \/ TickBetweenTasks
  \/ AddToHotListCall \/ AddToHotListCapacity \/ AddToHotListSet
  \/ GetSize \/ CleanupTask

SpecAdmit == Init /\ [][NextAdmit]_vars

\* the hot list after addToHotList calls for the first i of the symbols, three
\* per clock value, under the default hotListSize of 50: none meets a full list
RECURSIVE AdmittedInTurn(_, _)
AdmittedInTurn(symbols, i) ==
  IF i = 0 THEN <<>>
  ELSE Append(AdmittedInTurn(symbols, i - 1),
              HotCoin(symbols[i], (i - 1) \div 3, "volume_spike", 2))

\* an evaluation cycle starts on a hot list of up to seven coins
InitTop ==
  /\ now = HotListTTL
  /\ hotList \in {AdmittedInTurn(seed, Len(seed)) : seed \in TopSeeds}
  /\ historicalArbitrage = <<>>
  /\ records = 0
  /\ hotOp = [op |-> "init", symbol |-> NoSymbol, reason |-> "none", size |-> 0]
  /\ InitCache
  /\ InitBot
  /\ InitArb
  /\ InitSweep
  /\ InitBoot
  /\ InitTask
  /\ InitDiscovery({<<>>})

NextTop == StartEvaluation \/ ScanSymbolQuiet \/ Notify \/ EvaluatePathQuiet

SpecTop == InitTop /\ [][NextTop]_vars

\* fetchTicker calls on the shared cache as time passes and the cleanup timer fires
NextFetch == Tick \/ FetchTicker \/ Cleanup

SpecFetch == Init /\ [][NextFetch]_vars

\* ------------------------------------------------- hot-list properties
\* C1: after any sequence of admit, sweepExpired, reinstateHistorical and
\* clear calls, at any clock values, size() is at most the configured maximum.
C1_SizeAtMostMaximum == Len(hotList) <= HotListSize

\* the entries of hl other than entry i, in order
Without(hl, i) == [k \in 1..(Len(hl) - 1) |-> IF k < i THEN hl[k] ELSE hl[k + 1]]

\* C2: admit of a symbol that is not present into a set at capacity evicts
\* exactly one entry, one with the smallest admittedAt, leaves every other
\* entry unchanged and inserts the new symbol.
C2_AdmitAtCapacityEvictsOldest ==
  [][(hotOp'.op = "admit" /\ ~IsHot(hotList, hotOp'.symbol) /\ Len(hotList) = HotListSize)
       => \E i \in 1..Len(hotList) :
            /\ \A j \in 1..Len(hotList) : hotList[i].addedAt <= hotList[j].addedAt
            /\ Len(hotList') = Len(hotList)
            /\ SubSeq(hotList', 1, Len(hotList) - 1) = Without(hotList, i)
            /\ hotList'[Len(hotList')].symbol = hotOp'.symbol]_vars

\* C3: right after a sweep at clock time s no entry with s - admittedAt > TTL
\* remains, and every entry with s - admittedAt <= TTL that was present
\* before the sweep is still present with unchanged fields.
C3_SweepRemovesExactlyExpired ==
  [][hotOp'.op = "sweep"
       => /\ \A i \in 1..Len(hotList') : ~(now' - hotList'[i].addedAt > HotListTTL)
          /\ \A i \in 1..Len(hotList) :
               now - hotList[i].addedAt <= HotListTTL
                 => \E j \in 1..Len(hotList') : hotList'[j] = hotList[i]]_vars

\* a sweep has removed an entry and has kept one whose age is exactly the TTL
C3_Witness ==
  /\ hotOp.op = "sweep"
  /\ hotOp.size > Len(hotList)
  /\ \E i \in 1..Len(hotList) : now - hotList[i].addedAt = HotListTTL

\* C4: admit of a symbol that is already present changes nothing: the entry
\* keeps its admittedAt, reason and snapshot, nothing is evicted and the
\* size is unchanged, also at capacity.
C4_AdmitPresentIsNoOp ==
  [][(hotOp'.op = "admit" /\ IsHot(hotList, hotOp'.symbol)) => hotList' = hotList]_vars

\* an admit at capacity for a symbol admitted at an earlier clock value, with
\* a reason other than the one the entry carries
C4_Witness ==
  /\ hotOp.op = "admit"
  /\ Len(hotList) >= HotListSize
  /\ \E i \in 1..Len(hotList) :
       /\ hotList[i].symbol = hotOp.symbol
       /\ hotList[i].addedAt < now
       /\ hotList[i].reason # hotOp.reason

\* the stat makes its symbol a candidate of reinstatement at clock value t
Eligible(h, t) ==
  /\ h.occurrences >= 3
  /\ t - h.lastSeen < WeekMs

\* C13: a reinstatement admits a symbol, with reason historical_pattern, exactly
\* when its occurrence count is at least 3, it was last seen within the
\* trailing week, it is not present and the size is below the maximum; it
\* never evicts or changes an entry, and a symbol last seen longer ago is not
\* reinstated
C13_ReinstatesExactlyEligible ==
  [][hotOp'.op = "reinstate"
       => /\ Len(hotList') >= Len(hotList)
          /\ SubSeq(hotList', 1, Len(hotList)) = hotList
          /\ \A j \in (Len(hotList) + 1)..Len(hotList') :
               /\ hotList'[j].reason = "historical_pattern"
               /\ ~IsHot(hotList, hotList'[j].symbol)
               /\ j <= HotListSize
               /\ \E i \in 1..Len(historicalArbitrage) :
                    /\ historicalArbitrage[i].symbol = hotList'[j].symbol
                    /\ Eligible(historicalArbitrage[i], now)
          /\ \A i \in 1..Len(historicalArbitrage) :
               ( /\ Eligible(historicalArbitrage[i], now)
                 /\ ~IsHot(hotList, historicalArbitrage[i].symbol)
                 /\ Len(hotList) < HotListSize )
               => IsHot(hotList', historicalArbitrage[i].symbol)]_vars

\* a reinstatement has admitted a symbol next to an entry that was present
C13_Witness ==
  /\ hotOp.op = "reinstate"
  /\ hotOp.size >= 1
  /\ Len(hotList) = hotOp.size + 1
  /\ hotList[Len(hotList)].reason = "historical_pattern"

\* the values recorded for the symbol, in the order recorded
LogOf(symbol) == SelectSeq(recorded, LAMBDA r : r.symbol = symbol)

RECURSIVE SumOf(_, _)
SumOf(log, i) ==
  IF i = 0 THEN <<0, 1>> ELSE RAdd(SumOf(log, i - 1), log[i].netProfitPercentage)

\* C14: after any sequence of recordOutcome calls every symbol recorded has a
\* stat whose occurrence count is the number of calls for it (each call adds
\* exactly 1), whose lastSeenAt is the time of its last call and whose running
\* average times the count is the sum of the values recorded for it; a symbol
\* never recorded has no stat, so a call leaves every other symbol's stat alone
C14_RunningAverage ==
  /\ \A s \in HistorySymbols :
       LET log == LogOf(s)
           i == HistIndex(historicalArbitrage, s)
       IN  IF Len(log) = 0 THEN i = 0
           ELSE /\ i # 0
                /\ historicalArbitrage[i].occurrences = Len(log)
                /\ historicalArbitrage[i].lastSeen = log[Len(log)].timestamp
                /\ RMul(historicalArbitrage[i].averageProfit, <<Len(log), 1>>)
                     = SumOf(log, Len(log))
  /\ \A i \in 1..Len(historicalArbitrage) : historicalArbitrage[i].symbol \in HistorySymbols

\* three values, not all equal, recorded for one symbol at different times
C14_Witness ==
  \E s \in HistorySymbols :
    /\ Len(LogOf(s)) = 3
    /\ LogOf(s)[1].netProfitPercentage # LogOf(s)[3].netProfitPercentage
    /\ LogOf(s)[1].timestamp < LogOf(s)[3].timestamp

\* ---------------------------------------------------- cache properties
\* what the history of set, delete and clear calls says get(key) returns now
Fresh(key) ==
  IF key \in DOMAIN lastSet /\ now - lastSet[key].timestamp <= lastSet[key].ttl
  THEN lastSet[key].data
  ELSE Null

\* C9: get(key) returns the value of the most recent set(key, value, ttl) when
\* now - storedAt <= ttl and no delete or clear intervened, and absent
\* otherwise, whether or not the sweep has run; has(key) is true exactly when
\* get(key) returns a value.
C9_GetReturnsFreshValue ==
  /\ cacheOp.op = "get" => cacheOp.value = Fresh(cacheOp.key)
  /\ cacheOp.op = "has" => cacheOp.found = (Fresh(cacheOp.key) # Null)

\* a get found an expired entry the sweep had not removed yet, and returned absent
C9_Witness ==
  /\ cacheOp.op = "get"
  /\ cacheOp.evicted
  /\ cacheOp.value = Null
  /\ cacheOp.key \in DOMAIN lastSet

\* C16: with the sweep run at arbitrary points of any sequence of get, set, has,
\* delete and clear calls, every get and has returns what a cache without the
\* sweep returns for the same calls, and the sweep removes only entries that
\* are expired, leaving every other entry as it is
C16_SweepNotObservable ==
  [][/\ cacheOp'.op = "get" => cacheOp'.value = CacheGet(unsweptCache, cacheOp'.key, now)
     /\ cacheOp'.op = "has" => cacheOp'.found = CacheHas(unsweptCache, cacheOp'.key, now)
     /\ cacheOp'.op = "cleanup" =>
          /\ \A key \in DOMAIN cache :
               IF Expired(cache[key], now) THEN key \notin DOMAIN cache'
               ELSE key \in DOMAIN cache' /\ cache'[key] = cache[key]
          /\ DOMAIN cache' \subseteq DOMAIN cache]_vars

\* a get returns a value after the sweep removed an entry that the cache
\* without the sweep still holds
C16_Witness ==
  /\ cacheOp.op = "get"
  /\ cacheOp.value # Null
  /\ \E key \in DOMAIN unsweptCache : key \notin DOMAIN cache

\* ------------------------------------------------------ bot properties
\* C10: a new discovery cycle never starts while a previous discovery cycle
\* is still running, and likewise for evaluation cycles: at most one cycle of
\* each kind is in flight.
C10_NoOverlappingCycles ==
  /\ starting + volumeScans <= 1
  /\ arbitrageScans <= 1

\* C11: after stop() has run, no discovery cycle, evaluation cycle, cache sweep
\* or hot-list sweep is started any more: the two periodic task timers and the
\* two sweep timers are all cancelled
C11_AllTimersCancelledAfterStop ==
  stopped =>
    /\ scanTimers = 0
    /\ arbitrageTimers = 0
    /\ ~hotCleanupInterval
    /\ ~cacheCleanupInterval

\* C12: a step taken after stop() has been called writes nothing to the
\* shared state: the hot list and the historical statistics stay as they are,
\* also when the step belongs to a discovery or evaluation cycle that was in
\* flight when stop() was called.
C12_NoWriteAfterStop ==
  [][stopped => /\ hotList' = hotList
                /\ historicalArbitrage' = historicalArbitrage]_vars

\* ------------------------------------------------- reported opportunities
Qualifies(o) ==
  /\ RLt(RInt(0), o.netProfit)
  /\ RLe(arbitrageThreshold, o.netProfitPercentage)

AllQualify(seq) == \A i \in 1..Len(seq) : Qualifies(seq[i])

\* C5: every opportunity the pairwise engine or the cyclic engine has returned,
\* every opportunity passed to the alert sink and every opportunity recorded
\* into the historical statistics has a net profit above 0 and a net profit
\* percentage of at least the configured threshold
C5_OnlyQualifyingOpportunities ==
  /\ AllQualify(opportunities)
  /\ AllQualify(triangularOpportunities)
  /\ AllQualify(alerts)
  /\ AllQualify(recorded)

\* a finished cycle that alerted and recorded a pairwise and a cyclic opportunity
C5_Witness ==
  /\ evalPc = "done"
  /\ \E i \in 1..Len(opportunities) : opportunities[i].type = "simple"
  /\ \E i \in 1..Len(triangularOpportunities) : triangularOpportunities[i].type = "triangular"
  /\ \E i, j \in 1..Len(alerts) : alerts[i].type = "simple" /\ alerts[j].type = "triangular"
  /\ \E i, j \in 1..Len(recorded) :
       recorded[i].type = "simple" /\ recorded[j].type = "triangular"
  /\ historicalArbitrage # <<>>

\* the transfer-eligibility service reports the symbol as blocked at the venue
Blocked(venue, symbol) ==
  /\ venue \in DOMAIN suspendedTokens
  /\ symbol \in suspendedTokens[venue]

\* the last pairwise step emitted an opportunity buying at u and selling at v
Emitted(u, v) ==
  \E i \in 1..Len(evalOp.found) :
    evalOp.found[i].buyExchange = u /\ evalOp.found[i].sellExchange = v

\* C6: for every opportunity of a pairwise step, with buy price b < sell price
\* s, trade amount A, fee rates rb and rs and a withdrawal fee of w base-asset
\* units: the gross profit is (s - b)/b * A, the total fees A*rb + A*rs + w*b + 0,
\* the net profit their difference and the net percentage net/A*100; for
\* b = 100, s = 105, A = 100, rb = rs = 0.001, w = 0 these are 5, 0.2, 4.8 and
\* 4.8, and such a pair is reported exactly when the threshold is at most 4.8
C6_PairwiseArithmetic ==
  evalOp.op = "pairwise" =>
    /\ \A i \in 1..Len(evalOp.found) :
         LET o == evalOp.found[i]
             b == evalOp.board[o.buyExchange]
             s == evalOp.board[o.sellExchange]
             A == RInt(100)
             rb == <<1, 1000>>
             rs == <<1, 1000>>
             w == evalOp.wfee[o.buyExchange]
             gross == RMul(RDiv(RSub(s, b), b), A)
             total == RAdd(RAdd(RAdd(RMul(A, rb), RMul(A, rs)), RMul(w, b)), RInt(0))
             net == RSub(gross, total)
         IN  /\ b # Absent /\ s # Absent /\ RLt(b, s)
             /\ o.buyPrice = b /\ o.sellPrice = s
             /\ o.estimatedProfit = gross
             /\ o.fees.totalFees = total
             /\ o.netProfit = net
             /\ o.netProfitPercentage = RMul(RDiv(net, A), RInt(100))
             /\ (b = <<100, 1>> /\ s = <<105, 1>> /\ w = <<0, 1>>) =>
                  /\ o.estimatedProfit = <<5, 1>>
                  /\ o.fees.totalFees = <<1, 5>>
                  /\ o.netProfit = <<24, 5>>
                  /\ o.netProfitPercentage = <<24, 5>>
    /\ \A u, v \in VenueSet :
         ( /\ evalOp.board[u] = <<100, 1>> /\ evalOp.board[v] = <<105, 1>>
           /\ evalOp.wfee[u] = <<0, 1>>
           /\ ~Blocked(u, evalOp.symbol) /\ ~Blocked(v, evalOp.symbol) )
         => (Emitted(u, v) <=> RLe(arbitrageThreshold, <<24, 5>>))

\* the example pair reported at a threshold of exactly 4.8
C6_Witness ==
  /\ evalOp.op = "pairwise"
  /\ arbitrageThreshold = <<24, 5>>
  /\ \E i \in 1..Len(evalOp.found) :
       /\ evalOp.found[i].buyPrice = <<100, 1>>
       /\ evalOp.found[i].sellPrice = <<105, 1>>
       /\ evalOp.found[i].fees.withdrawalFee = <<0, 1>>
       /\ evalOp.found[i].netProfitPercentage = <<24, 5>>

\* the net profit percentage of buying at u and selling at v on the quotes of
\* the last pairwise step
PairNetPct(u, v) ==
  LET b == evalOp.board[u]
      s == evalOp.board[v]
      gross == RMul(RDiv(RSub(s, b), b), RInt(100))
      total == RAdd(RAdd(<<1, 10>>, <<1, 10>>), RMul(evalOp.wfee[u], b))
  IN  RSub(gross, total)

\* C7: a pairwise step emits no opportunity for a venue pair whose buy venue or
\* sell venue has the symbol blocked, whatever the prices and fees, and still
\* emits the opportunity of every other venue pair of the symbol that qualifies
C7_BlockedPairSuppressed ==
  evalOp.op = "pairwise" =>
    \A u, v \in VenueSet :
      u # v =>
        /\ (Blocked(u, evalOp.symbol) \/ Blocked(v, evalOp.symbol)) => ~Emitted(u, v)
        /\ ( /\ ~Blocked(u, evalOp.symbol) /\ ~Blocked(v, evalOp.symbol)
             /\ evalOp.board[u] # Absent /\ evalOp.board[v] # Absent
             /\ RLt(evalOp.board[u], evalOp.board[v])
             /\ RLt(RInt(0), PairNetPct(u, v))
             /\ RLe(arbitrageThreshold, PairNetPct(u, v)) )
           => Emitted(u, v)

\* a symbol blocked at a venue whose quote would have made a qualifying pair,
\* while another pair of the same symbol is emitted
C7_Witness ==
  /\ evalOp.op = "pairwise"
  /\ \E u, v, x \in VenueSet :
       /\ Blocked(x, evalOp.symbol)
       /\ ~Blocked(u, evalOp.symbol) /\ ~Blocked(v, evalOp.symbol)
       /\ evalOp.board[u] = <<100, 1>>
       /\ evalOp.board[v] = <<105, 1>>
       /\ evalOp.board[x] = <<105, 1>>
       /\ RLe(arbitrageThreshold, PairNetPct(u, x))
       /\ Emitted(u, v)
       /\ ~Emitted(u, x)

\* C8: for every opportunity of a triangular step with leg-1 ask a1, leg-2 bid
\* b2, leg-3 bid b3, trade amount A and fee rate r, the net profit is
\* finalAmount - A with finalAmount = (A/a1)*(1-r)*b2*(1-r)*b3*(1-r); stated as
\* (netProfit + A) / ((A/a1)*b2*b3) = (1-r)*(1-r)*(1-r)
C8_CyclicNetProfit ==
  evalOp.op = "triangular" =>
    \A i \in 1..Len(evalOp.found) :
      LET A == RInt(100)
          keep == RSub(RInt(1), <<1, 1000>>)
          gross == RMul(RMul(RDiv(A, evalOp.tickers[1]), evalOp.tickers[2]),
                        evalOp.tickers[3])
      IN  RDiv(RAdd(evalOp.found[i].netProfit, A), gross) = RMul(RMul(keep, keep), keep)

\* the number of entries of seq for the given symbol
RECURSIVE CountFor(_, _, _)
CountFor(seq, symbol, i) ==
  IF i > Len(seq) THEN 0
  ELSE (IF seq[i].symbol = symbol THEN 1 ELSE 0) + CountFor(seq, symbol, i + 1)

\* C15: in an evaluation cycle every opportunity the pairwise engine or the
\* cyclic engine reports is recorded exactly once, with its symbol and its net
\* profit percentage, before the cycle ends: the records made so far are the
\* reported opportunities whose notification step is over, in order, and the
\* historical statistics count exactly these records
C15_EveryReportRecordedOnce ==
  LET reported == opportunities \o triangularOpportunities
  IN  /\ evalPc \in {"idle", "pairwise"} => recorded = <<>>
      /\ evalPc = "notify" => recorded \o notifyQueue = opportunities
      /\ evalPc = "triangular" => recorded = opportunities
      /\ evalPc = "notifyTri" => recorded \o notifyQueue = reported
      /\ evalPc = "done" => recorded = reported
      /\ \A symbol \in Symbols :
           LET i == HistIndex(historicalArbitrage, symbol)
               n == CountFor(recorded, symbol, 1)
           IN  IF n = 0 THEN i = 0
               ELSE i # 0 /\ historicalArbitrage[i].occurrences = n

\* a finished cycle in which both engines reported, the cyclic engine twice
\* for one symbol
C15_Witness ==
  /\ evalPc = "done"
  /\ Len(opportunities) >= 1
  /\ Len(triangularOpportunities) >= 2
  /\ Len(recorded) = Len(opportunities) + Len(triangularOpportunities)

\* the three quotes are there and none is zero
Usable(tickers) ==
  \A k \in 1..3 : tickers[k] # Absent /\ tickers[k] # <<0, 1>>

\* C17: a triangular step produces a cycle for its venue, symbol and
\* intermediate only when the symbol/USDT ask, the symbol/intermediate bid and
\* the intermediate/USDT bid are all present and non-zero, all of that venue;
\* otherwise the cycle is discarded, and either way the scan goes on to the
\* remaining intermediates
C17_CycleNeedsThreeQuotes ==
  [][evalOp'.op = "triangular" =>
       LET item == Head(triQueue)
           tickers == evalOp'.tickers
           paths == FindPath(item.exchange, item.symbol, item.intermediate, tickers)
       IN  /\ (paths # <<>>) <=> Usable(tickers)
           /\ \A i \in 1..Len(paths) :
                /\ paths[i].exchanges = <<item.exchange, item.exchange, item.exchange>>
                /\ paths[i].prices = tickers
                /\ paths[i].symbols = << <<item.symbol, "USDT">>,
                                         <<item.symbol, item.intermediate>>,
                                         <<item.intermediate, "USDT">> >>
           /\ evalOp'.found # <<>> => Usable(tickers)
           /\ ~Usable(tickers) => triangularOpportunities' = triangularOpportunities
           /\ \A i \in 1..Len(evalOp'.found) :
                /\ evalOp'.found[i].buyExchange = item.exchange
                /\ evalOp'.found[i].sellExchange = item.exchange
                /\ evalOp'.found[i].symbol = item.symbol
           /\ tickers = <<<<100, 1>>, <<1, 50>>, <<5300, 1>>>> => evalOp'.found # <<>>
           /\ triQueue' = Tail(triQueue)]_vars

\* a cycle through the last intermediate is emitted after the cycles through
\* the earlier intermediates of the same venue and symbol came to nothing
C17_Witness ==
  /\ evalOp.op = "triangular"
  /\ evalOp.found # <<>>
  /\ evalOp.exchange = MajorExchanges[1]
  /\ evalOp.intermediate = Intermediates[Len(Intermediates)]
  /\ Len(triangularOpportunities) = 1

\* the cyclic opportunities among the given ones
Cyclic(seq) == SelectSeq(seq, LAMBDA o : o.type = "triangular")

\* the opportunity carries the path USDT, its symbol, a candidate intermediate
\* that is no stable-quote currency, USDT
FourCurrencyPath(o) ==
  /\ Len(o.path) = 4
  /\ o.path[1] = "USDT"
  /\ o.path[2] = o.symbol
  /\ o.path[3] \in {"BTC", "ETH", "BNB"}
  /\ o.path[3] # o.symbol
  /\ o.path[4] = "USDT"

\* C18: every cyclic opportunity returned, alerted or recorded carries a path
\* of exactly four currencies, funding currency, symbol, intermediate, funding
\* currency, whatever the symbol of the hot list and the candidate
\* intermediate, and the intermediate is never USDT or USDC
C18_PathOfFourCurrencies ==
  /\ \A i \in 1..Len(triangularOpportunities) : FourCurrencyPath(triangularOpportunities[i])
  /\ \A i \in 1..Len(Cyclic(alerts)) : FourCurrencyPath(Cyclic(alerts)[i])
  /\ \A i \in 1..Len(Cyclic(recorded)) : FourCurrencyPath(Cyclic(recorded)[i])
  /\ \A i \in 1..Len(triQueue) : triQueue[i].intermediate \notin {"USDT", "USDC"}
  /\ evalOp.op = "triangular" =>
       \A i \in 1..Len(evalOp.found) :
         evalOp.found[i].path = <<"USDT", evalOp.symbol, evalOp.intermediate, "USDT">>

\* a finished cycle has alerted cyclic opportunities through every candidate
\* intermediate
C18_Witness ==
  /\ evalPc = "done"
  /\ \A c \in {"BTC", "ETH", "BNB"} :
       \E i \in 1..Len(Cyclic(alerts)) : Cyclic(alerts)[i].path[3] = c

\* ------------------------------------------------- discovery properties
\* spikeRatio >= spikeThreshold and currentVolume >= minVolume
IsSpike(d) ==
  /\ d.volumeSpike[1] >= VolumeSpikeThreshold * d.volumeSpike[2]
  /\ d.currentVolume >= MinAbsoluteVolume

\* the symbols proposed so far with the given reason, in order
ProposedFor(reason) ==
  LET kept == SelectSeq(proposed, LAMBDA p : p.reason = reason)
  IN  [i \in 1..Len(kept) |-> kept[i].symbol]

\* C19: the samples classified as volume spikes are exactly those with
\* spikeRatio >= spikeThreshold and currentVolume >= minVolume, among them any
\* sample with rolling average 100,000 and current volume 350,000 under
\* threshold 3 and minimum 200,000, and the symbols proposed for admission with
\* reason volume_spike are the symbols so classified, each once, as far as the
\* spike loop has come
C19_SpikesClassifiedAndProposed ==
  /\ VolumeSpikeThreshold = 3 /\ MinAbsoluteVolume = 200000
  /\ volumeScanPc \in {"alert", "disparity", "done"} =>
       /\ volumeSpikes = SelectSeq(scanVolumeData, IsSpike)
       /\ \A i \in 1..Len(scanVolumeData) :
            ( /\ scanVolumeData[i].averageVolume = <<100000, 1>>
              /\ scanVolumeData[i].currentVolume = 350000 )
            => \E j \in 1..Len(volumeSpikes) : volumeSpikes[j] = scanVolumeData[i]
       /\ ProposedFor("volume_spike") =
            [i \in 1..(IF volumeScanPc = "alert" THEN spikeIndex ELSE Len(volumeSpikes))
               |-> volumeSpikes[i].symbol]
  /\ volumeScanPc \in {"idle", "scan"} => ProposedFor("volume_spike") = <<>>

\* a finished cycle classified and proposed the sample with rolling average
\* 100,000 and current volume 350,000, and left alone a sample whose ratio
\* reaches the threshold on a volume below the minimum
C19_Witness ==
  /\ volumeScanPc = "done"
  /\ \E i \in 1..Len(scanVolumeData) :
       /\ scanVolumeData[i].averageVolume = <<100000, 1>>
       /\ scanVolumeData[i].currentVolume = 350000
       /\ \E j \in 1..Len(proposed) :
            proposed[j] = Proposal(scanVolumeData[i].symbol, "volume_spike")
  /\ \E i \in 1..Len(scanVolumeData) :
       /\ scanVolumeData[i].volumeSpike = <<3, 1>>
       /\ scanVolumeData[i].currentVolume < MinAbsoluteVolume
       /\ \A j \in 1..Len(proposed) : proposed[j].symbol # scanVolumeData[i].symbol

\* currentVolume >= 2 * minVolume
IsHighVolume(d) == d.currentVolume >= 2 * MinAbsoluteVolume

HasDisparity(tickers) ==
  LET nonZero == {i \in 1..Len(tickers) : tickers[i] # Absent /\ tickers[i][1] > 0}
  IN  /\ Cardinality(nonZero) >= 2
      /\ \E i, j \in nonZero : tickers[i][1] >= 3 * tickers[j][1]

\* C21: when a discovery cycle is over, every symbol of the scan's output for
\* which at least two venues report non-zero volume with max/min >= 3 has been
\* proposed for admission with the disparity reason, whether or not the symbol
\* was in the hot list.
C21_DisparityProposedForEveryScanned ==
  volumeScanPc = "done" =>
    \A i \in 1..Len(scanVolumeData) :
      HasDisparity(venueTickers[scanVolumeData[i].symbol]) =>
        \E j \in 1..Len(proposed) :
          proposed[j] = Proposal(scanVolumeData[i].symbol, "cross_exchange_disparity")

\* ------------------------------------------------- failure isolation
\* seq is what is left of whole after some of its first elements were taken
IsSuffix(seq, whole) ==
  /\ Len(seq) <= Len(whole)
  /\ seq = SubSeq(whole, Len(whole) - Len(seq) + 1, Len(whole))

\* C22: in a discovery or evaluation cycle every symbol is processed in its
\* turn, whatever came of the symbols before it: a step of the scanner, of
\* the pairwise engine or of the cyclic engine takes the first symbol left and
\* leaves all the others to be processed, also when the venues give nothing
\* for it, and the cycle goes on to its next phase when none is left
C22_FailureDoesNotStopCycle ==
  [][/\ volumeScanPc = "scan" =>
          /\ volumeQueue # <<>>
          /\ IsSuffix(volumeQueue, ScanCoins)
          /\ volumeQueue' # volumeQueue =>
               /\ volumeQueue' = Tail(volumeQueue)
               /\ venueTickers'[Head(volumeQueue)] \in VolumeBoards
               /\ Tail(volumeQueue) # <<>> => volumeScanPc' = "scan"
               /\ Len(scanVolumeData') =
                    Len(scanVolumeData) +
                    (IF SumFrom(VenueVolumes(venueTickers'[Head(volumeQueue)]), 1) > 0
                     THEN 1 ELSE 0)
     /\ evalPc = "pairwise" =>
          /\ scanQueue # <<>>
          /\ scanQueue' # scanQueue =>
               /\ scanQueue' = Tail(scanQueue)
               /\ evalOp'.symbol = Head(scanQueue)
               /\ Tail(scanQueue) # <<>> => evalPc' = "pairwise"
               /\ Tail(scanQueue) = <<>> => evalPc' \in {"notify", "triangular"}
     /\ evalPc = "triangular" =>
          /\ IsSuffix(triQueue, TriQueue(topHotSymbols))
          /\ triQueue' # triQueue =>
               /\ triQueue' = Tail(triQueue)
               /\ evalOp'.symbol = Head(triQueue).symbol
               /\ Tail(triQueue) # <<>> => evalPc' = "triangular"]_vars

\* the scanner got nothing for its first coin and a sample for the second,
\* and the pairwise engine found nothing for the first hot symbol and an
\* opportunity for a later one, in cycles that ran to their end
C22_Witness ==
  /\ volumeScanPc = "done"
  /\ venueTickers[ScanCoins[1]] = <<Absent, Absent, Absent>>
  /\ \E i \in 1..Len(scanVolumeData) : scanVolumeData[i].symbol = ScanCoins[2]
  /\ evalPc = "done"
  /\ Len(topHotSymbols) >= 2
  /\ opportunities # <<>>
  /\ \A i \in 1..Len(opportunities) : opportunities[i].symbol # topHotSymbols[1]

\* C23: a failure to deliver an opportunity to the sink does not abort or block
\* the evaluation cycle: whatever the outcome of each delivery, every alert
\* attempted is recorded, the loops go through every reported opportunity, and
\* at the end of the cycle all of them were handed to the sink and recorded.
C23_SinkFailureDoesNotAbort ==
  LET reported == opportunities \o triangularOpportunities
  IN  /\ Len(delivered) = Len(alerts)
      /\ recorded = alerts
      /\ evalPc = "notify" => alerts \o notifyQueue = opportunities
      /\ evalPc = "triangular" => alerts = opportunities
      /\ evalPc = "notifyTri" => alerts \o notifyQueue = reported
      /\ evalPc = "done" => alerts = reported

\* a cycle ends in which the delivery of a pairwise opportunity failed and a
\* later cyclic opportunity was delivered
C23_Witness ==
  /\ evalPc = "done"
  /\ opportunities # <<>>
  /\ triangularOpportunities # <<>>
  /\ delivered[1] = FALSE
  /\ delivered[Len(delivered)] = TRUE
  /\ recorded[1] = opportunities[1]
  /\ Len(recorded) = Len(opportunities) + Len(triangularOpportunities)

\* a setting that is a number outside the range the configuration allows
OutOfRange(c) ==
  LET below(x, n) == ~IsNaN(x) /\ x[1] < n * x[2]
      above(x, n) == ~IsNaN(x) /\ x[1] > n * x[2]
  IN  \/ below(c.arbitrageThreshold, 0) \/ above(c.arbitrageThreshold, 100)
      \/ below(c.volumeSpikeThreshold, 1)
      \/ below(c.hotListSize, 1) \/ above(c.hotListSize, 500)

\* start() was never called: no initial scan, no timer, no cycle of either kind
NeverStarted ==
  /\ ~isRunning /\ ~stopped
  /\ starting = 0 /\ volumeScans = 0 /\ arbitrageScans = 0
  /\ scanTimers = 0 /\ arbitrageTimers = 0

\* C24: if the configured profit threshold is outside 0-100, the spike
\* multiplier is below 1 or the maximum size is outside 1-500, the process
\* leaves the load of its configuration only by exiting with code 1, and no
\* discovery or evaluation cycle ever runs.
C24_InvalidConfigurationIsFatal ==
  OutOfRange(Config(env)) =>
    /\ processPc \in {"load", "exit1"}
    /\ NeverStarted

\* the process exited on a maximum size of 501, the other settings in range
C24_Witness ==
  /\ processPc = "exit1"
  /\ env = [ARBITRAGE_THRESHOLD |-> "100", VOLUME_SPIKE_THRESHOLD |-> "1",
            HOT_LIST_SIZE |-> "501"]

\* C25: a coin leaves the hot list by expiry only after a time of inactivity:
\* an entry whose symbol was proposed by the call just before the expiry sweep,
\* at the same clock value, is still in the hot list after the sweep.
C25_ExpiryOnlyAfterInactivity ==
  [][(hotOp.op = "admit" /\ hotOp'.op = "sweep") => IsHot(hotList', hotOp.symbol)]_vars

\* C26: addToHotList runs atomically with respect to all other tasks: no
\* reader, sweep or other admission looks at the hot list while a call stands
\* between its capacity check, its eviction and its insertion, so none sees the
\* size during an admission; and the statements of a call taken together do what
\* addToHotList does on the hot list it was called on.
C26_AdmitIsAtomic ==
  [][/\ ~observed'.during
     /\ admitPc # "idle" =>
          /\ observed' = observed
          /\ admitCall'.symbol = admitCall.symbol
          /\ admitPc' = "idle" =>
               hotList' = AddToHotList(admitCall.before, admitCall.symbol,
                                       admitCall.reason, admitCall.volumeData, now)]_vars

\* a reader saw the full hot list after an admission that evicted an entry
C26_Witness ==
  /\ admitPc = "idle"
  /\ admitCall.evicted
  /\ observed.task = "size"
  /\ observed.after = admitCall.symbol
  /\ observed.size = HotListSize
  /\ IsHot(hotList, admitCall.symbol)

\* the symbols the cyclic engine has been evaluated for are among topHotSymbols
CyclicOnlyForTop ==
  /\ \A k \in 1..Len(triQueue) :
       \E i \in 1..Len(topHotSymbols) : triQueue[k].symbol = topHotSymbols[i]
  /\ evalOp.op = "triangular" =>
       \E i \in 1..Len(topHotSymbols) : evalOp.symbol = topHotSymbols[i]

\* C27 (as the code has it): in an evaluation cycle the cyclic engine is
\* evaluated for at most 5 symbols, and when the hot list has more than 5
\* members these are the five admitted earliest, the head of the hot list in
\* admission order.
C27_CyclicEngineOnFirstFive ==
  evalPc # "idle" =>
    /\ Len(topHotSymbols) <= TopHotLimit
    /\ Len(topHotSymbols) = Min(TopHotLimit, Len(hotList))
    /\ \A i \in 1..Len(topHotSymbols) : topHotSymbols[i] = hotList[i].symbol
    /\ CyclicOnlyForTop

\* the cyclic engine ran on a hot list of seven and was last evaluated for the
\* fifth of them
C27_Witness ==
  /\ evalPc = "done"
  /\ Len(hotList) = 7
  /\ evalOp.op = "triangular"
  /\ evalOp.symbol = hotList[5].symbol

\* C27 (as stated): when the hot list has more than 5 members the symbols the
\* cyclic engine is evaluated for are the most recently admitted ones: no
\* member left out was admitted after a member evaluated.
C27_CyclicEngineOnMostRecent ==
  (evalPc # "idle" /\ Len(hotList) > TopHotLimit) =>
    \A i, j \in 1..Len(hotList) :
      ((\E k \in 1..Len(topHotSymbols) : topHotSymbols[k] = hotList[i].symbol)
       /\ ~(\E k \in 1..Len(topHotSymbols) : topHotSymbols[k] = hotList[j].symbol))
        => hotList[i].addedAt >= hotList[j].addedAt

\* the key of the last fetchTicker call
FetchedKey(op) == CacheKey(op.exchangeId, op.symbol)

\* C28: while an unexpired cached quote exists for (venue, symbol), fetchQuote
\* returns it without calling the venue; the venue is called only when there
\* is no unexpired entry; and a successful result is stored under that key
\* with the quote TTL.
C28_CachedQuoteServedWithoutCall ==
  [][fetchOp'.n # fetchOp.n =>
       LET key == FetchedKey(fetchOp')
           live == key \in DOMAIN cache /\ ~Expired(cache[key], now)
       IN  /\ live => /\ ~fetchOp'.called
                      /\ fetchOp'.result = cache[key].data
                      /\ cache' = cache
           /\ fetchOp'.called => ~live
           /\ (fetchOp'.called /\ fetchOp'.answer # Absent) =>
                /\ fetchOp'.result = fetchOp'.answer
                /\ key \in DOMAIN cache'
                /\ cache'[key] = [data |-> fetchOp'.answer, timestamp |-> now,
                                  ttl |-> CacheTtlPrices]]_vars

\* a quote stored by one call was served by the next call for the key, the venue
\* not called, after the clock advanced within the TTL
C28_Witness ==
  /\ fetchOp.n >= 2
  /\ FetchedKey(fetchOp) = FetchedKey(fetchOp.prev)
  /\ fetchOp.prev.called
  /\ fetchOp.prev.result # Absent
  /\ ~fetchOp.called
  /\ fetchOp.result = fetchOp.prev.result
  /\ now - cache[FetchedKey(fetchOp)].timestamp = CacheTtlPrices

\* C29: a fetchQuote whose venue call fails returns absent and stores nothing
\* in the cache, so the next fetchQuote for the key calls the venue again, and
\* no failure is ever served from the cache.
C29_FailureNotCached ==
  /\ (fetchOp.called /\ fetchOp.answer = Absent) =>
       /\ fetchOp.result = Absent
       /\ FetchedKey(fetchOp) \notin DOMAIN cache
  /\ (fetchOp.n >= 2 /\ fetchOp.prev.called /\ fetchOp.prev.result = Absent
      /\ FetchedKey(fetchOp) = FetchedKey(fetchOp.prev)) => fetchOp.called
  /\ \A key \in DOMAIN cache : cache[key].data # Absent
  /\ ~fetchOp.called => (fetchOp.result = Absent => fetchOp.n = 0 \/ fetchOp.exchangeId \notin VenueSet)

\* a failed call was followed by a call for the same key that asked the venue
\* again and got a quote
C29_Witness ==
  /\ fetchOp.n >= 2
  /\ FetchedKey(fetchOp) = FetchedKey(fetchOp.prev)
  /\ fetchOp.prev.called
  /\ fetchOp.prev.result = Absent
  /\ fetchOp.called
  /\ fetchOp.result # Absent

\* the sum of the volumes of the venues that gave a ticker, among the first i
RECURSIVE ReportedTotal(_, _)
ReportedTotal(board, i) ==
  IF i = 0 THEN 0
  ELSE ReportedTotal(board, i - 1) + (IF board[i] = Absent THEN 0 ELSE board[i][1])

\* C30: in the scan of a symbol a venue whose call fails or gives no data
\* counts as 0 and does not abort the symbol: the sample's volume is the sum
\* over the venues that answered; and a symbol whose aggregate is 0 yields no
\* VolumeSample and leaves its rolling window unchanged.
C30_FailedVenueCountsZero ==
  [][(volumeScanPc = "scan" /\ volumeQueue' # volumeQueue) =>
       LET symbol == Head(volumeQueue)
           board == venueTickers'[symbol]
           total == ReportedTotal(board, Len(board))
           window == volumeHistory'[symbol]
       IN  /\ \A other \in DOMAIN volumeHistory \ {symbol} :
                volumeHistory'[other] = volumeHistory[other]
           /\ total = 0 => /\ scanVolumeData' = scanVolumeData
                           /\ window = volumeHistory[symbol]
           /\ total > 0 =>
                /\ Len(scanVolumeData') = Len(scanVolumeData) + 1
                /\ SubSeq(scanVolumeData', 1, Len(scanVolumeData)) = scanVolumeData
                /\ scanVolumeData'[Len(scanVolumeData')].symbol = symbol
                /\ scanVolumeData'[Len(scanVolumeData')].currentVolume = total
                /\ window # volumeHistory[symbol]
                /\ window[Len(window)] = total]_vars

\* a scan in which no venue answered for the first coin, whose window of three
\* volumes is as it was, and one venue of three answered for the second, whose
\* sample has that venue's volume
C30_Witness ==
  /\ volumeScanPc = "done"
  /\ venueTickers[ScanCoins[1]] = <<Absent, Absent, Absent>>
  /\ volumeHistory[ScanCoins[1]] = <<10000, 20000, 20000>>
  /\ venueTickers[ScanCoins[2]] = <<<<150000>>, Absent, Absent>>
  /\ Len(scanVolumeData) = 1
  /\ scanVolumeData[1].symbol = ScanCoins[2]
  /\ scanVolumeData[1].currentVolume = 150000

\* C31: for every symbol the rolling volume history never holds more than 12
\* samples; a sample inserted into a full window drops exactly the oldest one,
\* so the window holds the most recent samples in arrival order.
C31_WindowOfTwelve ==
  [][/\ \A symbol \in DOMAIN volumeHistory' : Len(volumeHistory'[symbol]) <= HistoryWindow
     /\ (volumeScanPc = "scan" /\ volumeQueue' # volumeQueue) =>
          LET symbol == Head(volumeQueue)
              board == venueTickers'[symbol]
              total == ReportedTotal(board, Len(board))
              before == volumeHistory[symbol]
              after == volumeHistory'[symbol]
          IN  total > 0 =>
                IF Len(before) < HistoryWindow
                THEN after = before \o <<total>>
                ELSE after = SubSeq(before, 2, Len(before)) \o <<total>>]_vars

\* a sample went into a full window: the window holds twelve samples, the
\* former second one first and the new one last
C31_Witness ==
  /\ volumeScanPc = "done"
  /\ \E i \in 1..Len(scanVolumeData) :
       LET window == volumeHistory[scanVolumeData[i].symbol]
       IN  /\ Len(window) = HistoryWindow
           /\ window[1] = 20000
           /\ window[HistoryWindow - 1] = 120000
           /\ window[HistoryWindow] = scanVolumeData[i].currentVolume
           /\ scanVolumeData[i].currentVolume = 350000

\* C36: the rolling average includes the current sample, so the spike ratio of
\* every sample the scan produces is at most the number of samples in the
\* symbol's window, hence at most 12, and the first sample ever taken for a
\* symbol has spike ratio exactly 1.
C36_SpikeRatioAtMostWindow ==
  [][(volumeScanPc = "scan" /\ Len(scanVolumeData') > Len(scanVolumeData)) =>
       LET sample == scanVolumeData'[Len(scanVolumeData')]
           window == volumeHistory'[sample.symbol]
       IN  /\ RMul(sample.averageVolume, RInt(Len(window)))
                = RInt(SumFrom(window, 1))
           /\ window[Len(window)] = sample.currentVolume
           /\ RLe(sample.volumeSpike, RInt(Len(window)))
           /\ RLe(sample.volumeSpike, RInt(HistoryWindow))
           /\ volumeHistory[sample.symbol] = <<>> => sample.volumeSpike = RInt(1)]_vars

\* a first sample with ratio 1, and a sample on a window of three earlier ones
\* whose ratio is above 3 and within the four samples of its window
C36_Witness ==
  /\ volumeScanPc = "done"
  /\ Len(scanVolumeData) = 2
  /\ volumeHistory[scanVolumeData[1].symbol] = <<scanVolumeData[1].currentVolume>>
  /\ scanVolumeData[1].volumeSpike = RInt(1)
  /\ Len(volumeHistory[scanVolumeData[2].symbol]) = 4
  /\ RLt(RInt(3), scanVolumeData[2].volumeSpike)

\* C32: within a discovery cycle no classification (spike, high volume,
\* disparity) and no admission happens before the scan has collected the
\* samples of all its batches: while symbols are still to be scanned nothing
\* is classified or proposed and the hot list is not touched, and what is
\* classified is classified over the samples of the whole scan.
C32_ClassifiedAfterFullScan ==
  [][/\ volumeQueue' # <<>> =>
          /\ volumeSpikes' = volumeSpikes
          /\ disparities' = disparities
          /\ proposed' = proposed
          /\ hotList' = hotList
     /\ (volumeSpikes' # volumeSpikes \/ disparities' # disparities
         \/ proposed' # proposed \/ hotList' # hotList) =>
          /\ volumeQueue' = <<>>
          /\ volumeScanPc' # "scan"
          /\ \A i \in 1..Len(ScanCoins) :
               LET board == venueTickers'[ScanCoins[i]]
               IN  ReportedTotal(board, Len(board)) > 0 =>
                     \E k \in 1..Len(scanVolumeData') :
                       scanVolumeData'[k].symbol = ScanCoins[i]]_vars

\* a cycle ended in which the first coin scanned was a spike and was proposed,
\* with the samples of both coins collected
C32_Witness ==
  /\ volumeScanPc = "done"
  /\ Len(scanVolumeData) = Len(ScanCoins)
  /\ volumeSpikes # <<>>
  /\ volumeSpikes[1].symbol = ScanCoins[1]
  /\ proposed # <<>>
  /\ proposed[1] = Proposal(ScanCoins[1], "volume_spike")
  /\ IsHot(hotList, ScanCoins[1])

\* C33: at any time at most one discovery timer and one evaluation timer are
\* scheduled, and whenever isRunning is false neither timer is scheduled,
\* whatever the interleaving of start() and stop() calls.
C33_TimersFollowIsRunning ==
  /\ scanTimers <= 1
  /\ arbitrageTimers <= 1
  /\ ~isRunning => (scanTimers = 0 /\ arbitrageTimers = 0)

C35_ClearedWhenNoLongerReported ==
  [][evalOp'.op = "status" =>
       \A v \in VenueSet :
         evalOp'.board[v] = {} =>
           \A asset \in Symbols : ~IsSuspended(suspendedTokens', v, asset)]_vars

\* a setting whose text is not a number: parseFloat and parseInt give NaN
NonNumeric(c) ==
  \/ IsNaN(c.arbitrageThreshold)
  \/ IsNaN(c.volumeSpikeThreshold)
  \/ IsNaN(c.hotListSize)

\* C37: a non-numeric value of the profit threshold, the spike multiplier or
\* the maximum size is rejected at startup as an out-of-range value is: the
\* process leaves the load of its configuration only by exiting with code 1,
\* and never starts a cycle with a NaN setting.
C37_NonNumericIsFatal ==
  NonNumeric(Config(env)) =>
    /\ processPc \in {"load", "exit1"}
    /\ NeverStarted

\* C38: changes of the active set never lose or reset historical statistics:
\* an expiry sweep, an admission (with or without a capacity eviction), an
\* explicit removal and a clear leave every statistic as it was, and on every
\* step each symbol that has a statistic keeps one whose occurrence count has
\* not decreased.
C38_HistoryOutlivesActiveSet ==
  [][/\ hotOp'.op \in {"sweep", "admit", "remove", "clear"} =>
          historicalArbitrage' = historicalArbitrage
     /\ \A i \in 1..Len(historicalArbitrage) :
          LET j == HistIndex(historicalArbitrage', historicalArbitrage[i].symbol)
          IN  /\ j # 0
              /\ historicalArbitrage'[j].occurrences >= historicalArbitrage[i].occurrences]_vars

\* a full hot list was cleared while BTC had two recorded occurrences, and the
\* statistic is still there
C38_Witness ==
  /\ hotOp.op = "clear"
  /\ hotOp.size = HotListSize
  /\ hotList = <<>>
  /\ HistIndex(historicalArbitrage, "BTC") # 0
  /\ historicalArbitrage[HistIndex(historicalArbitrage, "BTC")].occurrences = 2

====
